---------------------------- MODULE Spec2Model ----------------------------
(***************************************************************************)
(* Caching and concurrency wrappers of the correlation and rank-response   *)
(* routes:                                                                 *)
(*   - createLoader            (src/lib/server/correlation-data.ts)        *)
(*   - GET of the regulator route, fetchReplicateData and                  *)
(*     groupByExpressionSource (src/unnamed/part_004, lines 256-858)       *)
(*   - GET of the metadata route (src/unnamed/part_004, lines 1-254)       *)
(* Node runs every handler on one event loop: a step of the model is the   *)
(* code that runs between two suspension points (awaits).                  *)
(***************************************************************************)
EXTENDS Integers, Sequences, FiniteSets, TLC

(***************************************************************************)
(* Bounds of the model.                                                    *)
(***************************************************************************)
MaxCallers == 3
MaxRequests == 3
MaxTicks == 2
MaxReplicates == 5
MaxSamples == 3
MaxColumns == 3
MaxRows == 2
MaxTrials == 3
MaxPending == 1
Precision == 4

Callers == 1..MaxCallers
Requests == 1..MaxRequests
RegulatorIds == {"r1", "r2"}

\* part_004:12 and part_004:270
CACHE_TTL_MS == 300000

\* The clock advances in steps of half a TTL.
TickMs == CACHE_TTL_MS \div 2

(***************************************************************************)
(* State                                                                   *)
(***************************************************************************)
\* createLoader, correlation-data.ts:246-294
VARIABLES
  apiUrl,          \* createLoader's apiUrl argument is set (TRUE) or undefined
  cachedPromise,   \* 0 = null, else the index in loads of the cached promise
  loads,           \* the runs of the async IIFE of lines 256-290, in start order
  callerPromise,   \* per caller: 0 = has not called, else the load it awaits
  callerEarly      \* per caller: it called before the first load had settled

loaderVars == <<apiUrl, cachedPromise, loads, callerPromise, callerEarly>>

VARIABLE now       \* Date.now()

\* Metadata route, part_004:26-28
VARIABLES
  cachedPayload,     \* line 26: 0 = null, else the fetch that produced it
  cacheTimestamp,    \* line 27
  inFlightRequest,   \* line 28: 0 = null, else the index in fetches
  fetches,           \* the promises built at lines 208-216, in start order
  metaRequests       \* per request of the route: where its handler stands

metadataVars ==
  <<cachedPayload, cacheTimestamp, inFlightRequest, fetches, metaRequests>>

\* Regulator route, part_004:286-287
VARIABLES
  TFBP_API_TOKEN,    \* the token is configured (lib/env)
  regulatorCache,    \* Map<string, CachedEntry>, line 286
  inFlightRequests,  \* Map<string, InFlightEntry>, line 287: 0 = no entry,
                     \* else the index in computations of the entry's promise
  computations,      \* the promises built at lines 829-836, in start order
  requests           \* per request of the route: where its handler stands

regulatorVars ==
  <<TFBP_API_TOKEN, regulatorCache, inFlightRequests, computations, requests>>

\* fetchReplicateData, part_004:653-706, inside loadRegulatorData
VARIABLES
  metadata,          \* the rows fetchMetadataForRegulator returned
  queue,             \* line 666: the ids of the rows not yet taken
  issued,            \* the ids fetchWithAuth was called for (line 677), in
                     \* call order
  phase,             \* per replicate id: where the worker holding it stands
  workers,           \* the workers that have not left their loop
  results,           \* line 660: the keys of the Map, in insertion order
  outcome,           \* per replicate id: how its fetch and processing ended
  poolState,         \* the promise fetchReplicateData returned
  expressionGroups   \* the groups of the payload built from results

poolVars ==
  <<metadata, queue, issued, phase, workers, results, outcome, poolState,
    expressionGroups>>

\* computePearsonCorrelation, correlation-data.ts:46-83
VARIABLES
  xValues,           \* the first argument
  yValues,           \* the second argument
  correlation        \* what the calls returned, once made

pearsonVars == <<xValues, yValues, correlation>>

\* loadCorrelationData and fetchCorrelationFromApi, correlation-data.ts:178-244
VARIABLES
  table,             \* the columns of the local file, in file order
  built,             \* the payload the source produced, once it has
  rebuilt            \* the payload of the same table with its columns permuted

matrixVars == <<table, built, rebuilt>>

\* parseNumericValue (correlation-data.ts:34-44), parseNumber (part_004:38-57
\* and 320-331)
VARIABLES
  raw,               \* the raw input
  parsed             \* what each routine returned for it, once called

coerceVars == <<raw, parsed>>

\* parseReplicateCsv and processPlotData, part_004:458-537
VARIABLES
  csvRows,           \* the rows Papa.parse produced
  plot               \* what processPlotData returned for the accepted rows

plotVars == <<csvRows, plot>>

\* binomialInv and binomialConfidenceInterval, part_004:378-393
VARIABLES
  binomialArgs,      \* the arguments target, n and p
  binomialOut        \* what each routine returned for them, once called

binomialVars == <<binomialArgs, binomialOut>>

\* useRankResponseRegulator, lib/utils.ts:175-270
VARIABLES
  regulatorId,       \* the hook's argument: "none" for null
  mounted,           \* the component that calls the hook is mounted
  hookState,         \* useState of lines 197-201: data, isLoading, error
  clientCache,       \* regulatorCache, line 182
  clientInFlight,    \* inFlight, line 183: for each id the closures of the
                     \* effects that hold the entry's promise, {} = no entry
  refreshCalls,      \* how many calls of refresh, lines 249-267, are pending
                     \* for each id, of the mounted instance and of gone ones
  settled            \* the closures of the promise of inFlight that
                     \* settled last

hookVars ==
  <<regulatorId, mounted, hookState, clientCache, clientInFlight,
    refreshCalls, settled>>

\* fetchCorrelationMatrix and its effect, binding-tab.tsx:138-174
VARIABLES
  tabMounted,            \* the binding tab is mounted
  correlationData,       \* useState: "null" or "payload"
  correlationError,      \* useState: "null" or "message"
  isCorrelationLoading,  \* useState
  tabFetches,            \* the calls of fetchCorrelationMatrix that are
                         \* pending
  tabSettled             \* the call that ended last

tabVars ==
  <<tabMounted, correlationData, correlationError, isCorrelationLoading,
    tabFetches, tabSettled>>

clientVars == <<hookVars, tabVars>>

statVars ==
  <<pearsonVars, matrixVars, coerceVars, plotVars, binomialVars, clientVars>>

serverVars == <<loaderVars, now, metadataVars, regulatorVars, poolVars>>

vars == <<serverVars, statVars>>

\* Time passes; no handler runs.
Tick ==
  /\ now < MaxTicks * TickMs
  /\ now' = now + TickMs
  /\ UNCHANGED <<loaderVars, metadataVars, regulatorVars, poolVars, statVars>>

(***************************************************************************)
(* Correlation loader: createLoader, correlation-data.ts:246-294           *)
(***************************************************************************)
\* Errors loadCorrelationData can raise (locateDataFile, fs.readFile).
LocalErrors == {"local_not_found", "local_read_failed"}

\* What the remote endpoint can answer: fetch itself rejects, or a response
\* with a status and a JSON body of some shape.
ApiResponses ==
  {[network |-> FALSE, ok |-> o, isObject |-> b, labels |-> l, matrix |-> m,
    min |-> lo, max |-> hi] :
      o \in BOOLEAN, b \in BOOLEAN, l \in BOOLEAN, m \in BOOLEAN,
      lo \in BOOLEAN, hi \in BOOLEAN}
  \cup {[network |-> TRUE, ok |-> FALSE, isObject |-> FALSE, labels |-> FALSE,
         matrix |-> FALSE, min |-> FALSE, max |-> FALSE]}

\* Values a promise of the loader settles with: a payload object (object is
\* its identity: the load that built it) or an error.
NoValue == [kind |-> "none", source |-> "none", object |-> 0, error |-> "none"]
Null == [kind |-> "null", source |-> "none", object |-> 0, error |-> "none"]
Payload(s, o) == [kind |-> "payload", source |-> s, object |-> o, error |-> "none"]
Failure(e) == [kind |-> "error", source |-> "none", object |-> 0, error |-> e]

\* Faulty variant of isValidCorrelationPayload, which the properties must tell
\* apart: the tests of min and max (lines 29-30) dropped.
isValidWithoutRange(value) ==
  /\ value.isObject
  /\ value.labels
  /\ value.matrix

\* isValidCorrelationPayload, lines 23-32
isValidCorrelationPayload(value) ==
  /\ value.isObject
  /\ value.labels
  /\ value.matrix
  /\ value.min
  /\ value.max

\* The error fetchCorrelationFromApi raises inside its try block (lines
\* 222-231), "none" when it raises nothing.
ApiError(resp) ==
  IF resp.network THEN "api_unreachable"
  ELSE IF ~resp.ok THEN "api_status"
  ELSE IF ~isValidCorrelationPayload(resp) THEN "api_format"
  ELSE "none"

\* fetchCorrelationFromApi, lines 217-244: the payload, or null ("null") after
\* the catch of lines 240-243 has swallowed the error.
fetchCorrelationFromApi(resp, l) ==
  IF ApiError(resp) = "none"
    THEN Payload("api", l)
    ELSE Null

\* Faulty variant of ShouldStartLoad, which the properties must tell apart:
\* the guard of line 255 dropped.
ShouldStartLoadAlways(cp) == TRUE

\* `if (!cachedPromise)`, line 255
ShouldStartLoad(cp) == cp = 0

NewLoad ==
  [phase |-> "local", localLoadError |-> "none", value |-> NoValue,
   lastError |-> "none", localTried |-> 1, apiTried |-> 0, early |-> TRUE]

FirstLoadSettled ==
  /\ Len(loads) >= 1
  /\ loads[1].phase \in {"fulfilled", "rejected"}

\* One call of the function createLoader returns (lines 254-293).  early
\* records whether the load was started before the first load settled.
LoaderCall(c) ==
  /\ callerPromise[c] = 0
  /\ IF ShouldStartLoad(cachedPromise)
       THEN /\ loads' = Append(loads, [NewLoad EXCEPT !.early = ~FirstLoadSettled])
            /\ cachedPromise' = Len(loads) + 1
       ELSE UNCHANGED <<loads, cachedPromise>>
  /\ callerPromise' = [callerPromise EXCEPT ![c] = cachedPromise']
  /\ callerEarly' = [callerEarly EXCEPT ![c] = ~FirstLoadSettled]
  /\ UNCHANGED apiUrl
  /\ UNCHANGED <<now, metadataVars, regulatorVars, poolVars, statVars>>

\* loadCorrelationData resolves (line 259): the IIFE returns its payload.
LocalLoadSucceeds(l) ==
  /\ l \in 1..Len(loads)
  /\ loads[l].phase = "local"
  /\ loads' = [loads EXCEPT ![l].phase = "fulfilled",
                            ![l].value = Payload("local", l)]
  /\ UNCHANGED <<apiUrl, cachedPromise, callerPromise, callerEarly>>
  /\ UNCHANGED <<now, metadataVars, regulatorVars, poolVars, statVars>>

\* Lines 281-289: what the IIFE throws once every source has failed.
RejectionOf(localLoadError, lastError) ==
  IF localLoadError # "none" THEN Failure(localLoadError)
  ELSE Failure("unable_to_load")

\* loadCorrelationData rejects (lines 260-267), then lines 269-289 up to the
\* await of line 275.
LocalLoadFails(l, e) ==
  /\ l \in 1..Len(loads)
  /\ loads[l].phase = "local"
  /\ IF apiUrl
       THEN loads' = [loads EXCEPT ![l].phase = "api",
                                   ![l].localLoadError = e,
                                   ![l].lastError = e,
                                   ![l].apiTried = @ + 1]
       ELSE loads' = [loads EXCEPT ![l].phase = "rejected",
                                   ![l].localLoadError = e,
                                   ![l].lastError = e,
                                   ![l].value = RejectionOf(e, e)]
  /\ UNCHANGED <<apiUrl, cachedPromise, callerPromise, callerEarly>>
  /\ UNCHANGED <<now, metadataVars, regulatorVars, poolVars, statVars>>

\* fetchCorrelationFromApi settles (line 275), then lines 276-289.
ApiSettles(l, resp) ==
  /\ l \in 1..Len(loads)
  /\ loads[l].phase = "api"
  /\ LET fromApi == fetchCorrelationFromApi(resp, l) IN
       IF fromApi # Null
         THEN loads' = [loads EXCEPT ![l].phase = "fulfilled",
                                     ![l].value = fromApi]
         ELSE loads' = [loads EXCEPT
                          ![l].phase = "rejected",
                          ![l].lastError = ApiError(resp),
                          ![l].value = RejectionOf(loads[l].localLoadError,
                                                   ApiError(resp))]
  /\ UNCHANGED <<apiUrl, cachedPromise, callerPromise, callerEarly>>
  /\ UNCHANGED <<now, metadataVars, regulatorVars, poolVars, statVars>>

LoaderInit ==
  /\ apiUrl \in BOOLEAN
  /\ cachedPromise = 0
  /\ loads = <<>>
  /\ callerPromise = [c \in Callers |-> 0]
  /\ callerEarly = [c \in Callers |-> FALSE]

LoaderNext ==
  \/ \E c \in Callers : LoaderCall(c)
  \/ \E l \in 1..MaxCallers : LocalLoadSucceeds(l)
  \/ \E l \in 1..MaxCallers, e \in LocalErrors : LocalLoadFails(l, e)
  \/ \E l \in 1..MaxCallers, resp \in ApiResponses : ApiSettles(l, resp)

(***************************************************************************)
(* Per-regulator route: GET, part_004:789-858                              *)
(***************************************************************************)
NoEntry == [present |-> FALSE, payload |-> 0, timestamp |-> 0, byOwner |-> TRUE]

NewRequest ==
  [state |-> "new", id |-> "none", refresh |-> FALSE, hadCache |-> FALSE,
   age |-> -1, comp |-> 0, status |-> 0, label |-> "none", payload |-> 0]

\* Faulty variant of CacheFresh, which the properties must tell apart:
\* an entry exactly TTL old still counts as fresh.
CacheFreshInclusive(cached, t) ==
  cached.present /\ t - cached.timestamp <= CACHE_TTL_MS

\* `cached && now - cached.timestamp < CACHE_TTL_MS`, line 810
CacheFresh(cached, t) ==
  cached.present /\ t - cached.timestamp < CACHE_TTL_MS

\* Faulty variant of JoinsInFlight, which the properties must tell apart:
\* a refresh request never joins.
JoinsInFlightUnlessRefresh(existing, bypassCache) ==
  existing # 0 /\ ~bypassCache

\* Faulty variant of JoinsInFlight, which the properties must tell apart:
\* every request joins a registered computation.
JoinsInFlightAlways(existing, bypassCache) == existing # 0

\* `existingInFlight && (!bypassCache || !existingInFlight.bypassCache)`,
\* line 817
JoinsInFlight(existing, bypassCache) ==
  existing # 0 /\ (~bypassCache \/ ~computations[existing].bypassCache)

PendingFor(id) ==
  {k \in 1..Len(computations) :
     computations[k].id = id /\ computations[k].state = "pending"}

\* The synchronous part of GET, lines 789-838, for a request for regulator
\* id ("missing": no regulatorId parameter) with or without the refresh flag.
\* hadCache, age and comp record what the request found and did.  Requests
\* are numbered in their order of arrival.  overlapAtStart: another
\* computation for the id was pending when this one started; overlapped: one
\* was pending at some time of its life; replaced: the computation whose
\* in-flight entry line 838 overwrote (0: none).
Arrive(r, id, bypassCache) ==
  /\ requests[r].state = "new"
  /\ \A q \in 1..(r - 1) : requests[q].state # "new"
  /\ LET cached == IF id = "missing" THEN NoEntry ELSE regulatorCache[id]
         existing == IF id = "missing" THEN 0 ELSE inFlightRequests[id]
         seen == [requests[r] EXCEPT
                    !.id = id, !.refresh = bypassCache,
                    !.hadCache = cached.present,
                    !.age = IF cached.present THEN now - cached.timestamp ELSE -1]
     IN
       IF id = "missing"
         THEN \* lines 792-794
              /\ requests' = [requests EXCEPT ![r] =
                   [NewRequest EXCEPT !.state = "returned", !.id = id,
                                      !.refresh = bypassCache, !.status = 400]]
              /\ UNCHANGED <<inFlightRequests, computations>>
       ELSE IF ~TFBP_API_TOKEN
         THEN \* lines 796-801
              /\ requests' = [requests EXCEPT ![r] =
                   [NewRequest EXCEPT !.state = "returned", !.id = id,
                                      !.refresh = bypassCache, !.status = 500]]
              /\ UNCHANGED <<inFlightRequests, computations>>
       ELSE IF ~bypassCache /\ CacheFresh(cached, now)
         THEN \* lines 810-814
              /\ requests' = [requests EXCEPT ![r] =
                   [seen EXCEPT !.state = "returned", !.status = 200,
                                !.label = "hit", !.payload = cached.payload]]
              /\ UNCHANGED <<inFlightRequests, computations>>
       ELSE IF JoinsInFlight(existing, bypassCache)
         THEN \* lines 816-819, up to the await
              /\ requests' = [requests EXCEPT ![r] =
                   [seen EXCEPT !.state = "awaitExisting", !.comp = existing]]
              /\ UNCHANGED <<inFlightRequests, computations>>
       ELSE \* lines 829-841, up to the await
              /\ computations' = Append(
                   [k \in 1..Len(computations) |->
                      IF k \in PendingFor(id)
                        THEN [computations[k] EXCEPT !.overlapped = TRUE]
                        ELSE computations[k]],
                   [id |-> id, bypassCache |-> bypassCache, starter |-> r,
                    state |-> "pending",
                    overlapAtStart |-> PendingFor(id) # {},
                    overlapped |-> PendingFor(id) # {},
                    replaced |-> existing])
              /\ inFlightRequests' =
                   [inFlightRequests EXCEPT ![id] = Len(computations) + 1]
              /\ requests' = [requests EXCEPT ![r] =
                   [seen EXCEPT !.state = "awaitOwn",
                                !.comp = Len(computations) + 1]]
  /\ UNCHANGED <<now, TFBP_API_TOKEN, regulatorCache>>
  /\ UNCHANGED <<loaderVars, metadataVars, poolVars, statVars>>

\* What the handler of request q does once the promise k it awaits has
\* settled: lines 819-826 for a request that joined, lines 841-857 for the
\* request that built the promise.
Resume(q, k, ok) ==
  IF requests[q].comp # k \/ requests[q].state \notin {"awaitExisting", "awaitOwn"}
    THEN requests[q]
  ELSE IF requests[q].state = "awaitExisting"
    THEN IF ok
           THEN [requests[q] EXCEPT !.state = "returned", !.status = 200,
                                    !.label = "busy", !.payload = k]
           ELSE [requests[q] EXCEPT !.state = "threw"]
  ELSE IF ok
    THEN [requests[q] EXCEPT
            !.state = "returned", !.status = 200,
            !.label = IF requests[q].hadCache THEN "miss" ELSE "warm",
            !.payload = k]
  ELSE [requests[q] EXCEPT !.state = "returned", !.status = 502]

\* loadRegulatorData(id) settles.  In one run of the microtask queue: the
\* then callback (lines 830-833) on success, the finally callback (lines
\* 834-836), and the continuation of every handler awaiting the promise.  The
\* delete of line 824 follows that of line 835 and removes nothing more.
Settle(k, ok) ==
  /\ k \in 1..Len(computations)
  /\ computations[k].state = "pending"
  /\ LET id == computations[k].id IN
       /\ regulatorCache' =
            IF ok
              THEN [regulatorCache EXCEPT ![id] =
                      [present |-> TRUE, payload |-> k, timestamp |-> now,
                       byOwner |-> inFlightRequests[id] = k]]
              ELSE regulatorCache
       /\ inFlightRequests' = [inFlightRequests EXCEPT ![id] = 0]
  /\ computations' =
       [computations EXCEPT ![k].state = IF ok THEN "fulfilled" ELSE "rejected"]
  /\ requests' = [q \in Requests |-> Resume(q, k, ok)]
  /\ UNCHANGED <<now, TFBP_API_TOKEN>>
  /\ UNCHANGED <<loaderVars, metadataVars, poolVars, statVars>>

RegulatorInit ==
  /\ now = 0
  /\ TFBP_API_TOKEN \in BOOLEAN
  /\ regulatorCache = [id \in RegulatorIds |-> NoEntry]
  /\ inFlightRequests = [id \in RegulatorIds |-> 0]
  /\ computations = <<>>
  /\ requests = [r \in Requests |-> NewRequest]

RegulatorNext ==
  \/ \E r \in Requests, id \in RegulatorIds \cup {"missing"}, b \in BOOLEAN :
       Arrive(r, id, b)
  \/ \E k \in 1..MaxRequests, ok \in BOOLEAN : Settle(k, ok)
  \/ Tick

(***************************************************************************)
(* Rank-response metadata route: GET, part_004:190-254                     *)
(***************************************************************************)
NewMetaRequest ==
  [state |-> "new", refresh |-> FALSE, hadCache |-> FALSE, age |-> -1,
   fetch |-> 0, status |-> 0, label |-> "none", payload |-> 0]

\* `!inFlightRequest || bypassCache`, line 206
ShouldStartFetch(inFlight, bypassCache) == inFlight = 0 \/ bypassCache

PendingFetches ==
  {f \in 1..Len(fetches) : fetches[f].state = "pending"}

\* Faulty variant of ServesStale, which the properties must tell apart: the
\* route without its stale answer.
ServesStaleNever(bypassCache, cacheFresh, hasCached) == FALSE

\* `!bypassCache && cacheFresh === false && cachedPayload`, line 219
ServesStale(bypassCache, cacheFresh, hasCached) ==
  ~bypassCache /\ ~cacheFresh /\ hasCached

\* Lines 206-217: the promises after the handler has started one, or not.
FetchesAfterStart(starts, r, bypassCache) ==
  IF starts
    THEN Append(fetches,
                [state |-> "pending", byRefresh |-> bypassCache, starter |-> r,
                 overlapAtStart |-> PendingFetches # {}, handled |-> FALSE])
    ELSE fetches

\* Lines 221 and 233: the handler attaches a rejection handler to the
\* promise inFlightRequest holds, by catch or by await.
Handled(promises, awaited) == [promises EXCEPT ![awaited].handled = TRUE]

\* The synchronous part of GET, lines 190-233.
MetaArrive(r, bypassCache) ==
  /\ metaRequests[r].state = "new"
  /\ \A q \in 1..(r - 1) : metaRequests[q].state # "new"
  /\ LET hasCached == cachedPayload # 0
         cacheAge == IF hasCached THEN now - cacheTimestamp ELSE -1
         cacheFresh == hasCached /\ cacheAge < CACHE_TTL_MS
         starts == ShouldStartFetch(inFlightRequest, bypassCache)
         awaited == IF starts THEN Len(fetches) + 1 ELSE inFlightRequest
         seen == [metaRequests[r] EXCEPT
                    !.refresh = bypassCache, !.hadCache = hasCached,
                    !.age = cacheAge]
     IN
       IF ~bypassCache /\ cacheFresh
         THEN \* lines 200-204
              /\ metaRequests' = [metaRequests EXCEPT ![r] =
                   [seen EXCEPT !.state = "returned", !.status = 200,
                                !.label = "hit", !.payload = cachedPayload]]
              /\ UNCHANGED <<inFlightRequest, fetches>>
         ELSE
           \* lines 206-217
           /\ inFlightRequest' = awaited
           /\ fetches' = Handled(FetchesAfterStart(starts, r, bypassCache),
                                 awaited)
           /\ IF ServesStale(bypassCache, cacheFresh, hasCached)
                THEN \* lines 219-230
                     metaRequests' = [metaRequests EXCEPT ![r] =
                       [seen EXCEPT !.state = "returned", !.status = 200,
                                    !.label = "stale", !.fetch = awaited,
                                    !.payload = cachedPayload]]
                ELSE \* line 233, up to the await
                     metaRequests' = [metaRequests EXCEPT ![r] =
                       [seen EXCEPT !.state = "await", !.fetch = awaited]]
  /\ UNCHANGED <<cachedPayload, cacheTimestamp, now>>
  /\ UNCHANGED <<loaderVars, regulatorVars, poolVars, statVars>>

\* Lines 233-253: the handler of request q once the promise f has settled.
MetaResume(q, f, ok) ==
  IF metaRequests[q].fetch # f \/ metaRequests[q].state # "await"
    THEN metaRequests[q]
  ELSE IF ok
    THEN [metaRequests[q] EXCEPT
            !.state = "returned", !.status = 200, !.payload = f,
            !.label = IF metaRequests[q].refresh THEN "refresh"
                      ELSE IF metaRequests[q].hadCache THEN "miss" ELSE "warm"]
  ELSE [metaRequests[q] EXCEPT !.state = "returned", !.status = 502]

\* fetchRankResponseMetadata() settles: the then callback (lines 209-213) on
\* success, the finally callback (lines 214-216), then the handlers awaiting
\* the promise, in one run of the microtask queue.
MetaSettle(f, ok) ==
  /\ f \in 1..Len(fetches)
  /\ fetches[f].state = "pending"
  /\ IF ok
       THEN /\ cachedPayload' = f
            /\ cacheTimestamp' = now
       ELSE UNCHANGED <<cachedPayload, cacheTimestamp>>
  /\ inFlightRequest' = 0
  /\ fetches' = [fetches EXCEPT ![f].state = IF ok THEN "fulfilled" ELSE "rejected"]
  /\ metaRequests' = [q \in Requests |-> MetaResume(q, f, ok)]
  /\ UNCHANGED now
  /\ UNCHANGED <<loaderVars, regulatorVars, poolVars, statVars>>

MetadataInit ==
  /\ now = 0
  /\ cachedPayload = 0
  /\ cacheTimestamp = 0
  /\ inFlightRequest = 0
  /\ fetches = <<>>
  /\ metaRequests = [r \in Requests |-> NewMetaRequest]

MetadataNext ==
  \/ \E r \in Requests, b \in BOOLEAN : MetaArrive(r, b)
  \/ \E f \in 1..MaxRequests, ok \in BOOLEAN : MetaSettle(f, ok)
  \/ Tick

(***************************************************************************)
(* Replicate worker pool: fetchReplicateData, part_004:653-706, and the    *)
(* assembly of the curves, groupByExpressionSource, part_004:708-740       *)
(***************************************************************************)
\* A metadata row as the pool and the assembly read it: id, expressionSource
\* and expressionId ("null": no expression id).
Row(i, src, expr) == [id |-> i, expressionSource |-> src, expressionId |-> expr]

\* One row per replicate 1..MaxReplicates: two expression sources, two
\* experiments, one row without expression id.
DistinctRows ==
  [i \in 1..MaxReplicates |->
     Row(i,
         IF i % 2 = 1 THEN "kemmeren_tfko" ELSE "mcisaac_oe",
         IF i = 3 THEN "null" ELSE IF i <= 4 THEN "e1" ELSE "e2")]

\* The metadata lists a regulator request runs on: every replicate once, the
\* same with replicate 1 listed again under another experiment, a short list
\* and a single row.
MetadataLists ==
  { DistinctRows,
    Append(DistinctRows, Row(1, "mcisaac_oe", "e2")),
    SubSeq(DistinctRows, 1, 2),
    SubSeq(DistinctRows, 1, 1) }

\* The curve processPlotData builds for a replicate; its baseline differs
\* from any other replicate's.
PlotData(id) == [replicate |-> id, random |-> id]

\* Lines 662-664: the ids of `new Map(metadata.map(row => [row.id, row]))`
\* in the Map's order: each id at its first occurrence.
RECURSIVE uniqueRows(_)
uniqueRows(m) ==
  IF m = <<>> THEN <<>>
  ELSE LET init == uniqueRows(SubSeq(m, 1, Len(m) - 1))
           last == m[Len(m)].id
       IN IF \E j \in 1..Len(init) : init[j] = last
            THEN init
            ELSE Append(init, last)

\* Faulty variant of concurrency, which the properties must tell apart:
\* one worker per queued row.
concurrencyUnbounded(queueLength) ==
  IF queueLength = 0 THEN 1 ELSE queueLength

\* `Math.min(4, queue.length) || 1`, line 667
concurrency(queueLength) ==
  LET m == IF queueLength < 4 THEN queueLength ELSE 4
  IN IF m = 0 THEN 1 ELSE m

\* plots.get(id) !== undefined
HasPlot(plots, id) == \E j \in 1..Len(plots) : plots[j] = id

\* Lines 720-736 for one row with a plot: the groups of the row's expression
\* source, keyed in insertion order, with the row's trace added.
AddTrace(grouped, row) ==
  LET known == \E s \in 1..Len(grouped) : grouped[s].source = row.expressionSource
      collections ==
        IF known
          THEN (CHOOSE s \in 1..Len(grouped) :
                  grouped[s].source = row.expressionSource)
          ELSE 0
      groups == IF known THEN grouped[collections].groups ELSE <<>>
      found == \E g \in 1..Len(groups) : groups[g].expressionId = row.expressionId
      added ==
        IF found
          THEN [g \in 1..Len(groups) |->
                  IF groups[g].expressionId = row.expressionId
                    THEN [groups[g] EXCEPT !.traces = Append(@, row.id)]
                    ELSE groups[g]]
          ELSE Append(groups,
                      [expressionId |-> row.expressionId,
                       expressionSource |-> row.expressionSource,
                       traces |-> <<row.id>>,
                       random |-> PlotData(row.id).random])
  IN IF known
       THEN [grouped EXCEPT ![collections].groups = added]
       ELSE Append(grouped, [source |-> row.expressionSource, groups |-> added])

RECURSIVE GroupRows(_, _)
GroupRows(rows, plots) ==
  IF rows = <<>> THEN <<>>
  ELSE LET grouped == GroupRows(SubSeq(rows, 1, Len(rows) - 1), plots)
           row == rows[Len(rows)]
       IN IF row.expressionId = "null" \/ ~HasPlot(plots, row.id)
            THEN grouped
            ELSE AddTrace(grouped, row)

\* Faulty variant of groupByExpressionSource, which the properties must tell apart:
\* the rows are visited in the order in
\* which their plots arrived.
RECURSIVE RowsByArrival(_, _)
RowsByArrival(m, plots) ==
  IF plots = <<>> THEN <<>>
  ELSE RowsByArrival(m, SubSeq(plots, 1, Len(plots) - 1))
       \o SelectSeq(m, LAMBDA row : row.id = plots[Len(plots)])

groupByArrival(m, plots) == GroupRows(RowsByArrival(m, plots), plots)

\* groupByExpressionSource, lines 708-740: the rows are visited in metadata
\* order.
groupByExpressionSource(m, plots) == GroupRows(m, plots)

InProgress == {i \in 1..MaxReplicates : phase[i] \in {"fetch", "text", "body"}}

\* fetchReplicateData(metadata) is called: lines 656-703 up to the first await
\* of every worker.  Each of the `concurrency` workers shifts one row off the
\* queue and starts its fetch.
StartPool ==
  /\ poolState = "init"
  /\ LET rows == uniqueRows(metadata)
         n == concurrency(Len(rows))
         taken == IF n < Len(rows) THEN n ELSE Len(rows)
     IN
       /\ queue' = SubSeq(rows, taken + 1, Len(rows))
       /\ issued' = SubSeq(rows, 1, taken)
       /\ phase' = [i \in 1..MaxReplicates |->
                      IF \E j \in 1..taken : rows[j] = i THEN "fetch"
                      ELSE IF \E j \in 1..Len(rows) : rows[j] = i THEN "queued"
                      ELSE "absent"]
       /\ workers' = taken
       /\ poolState' = IF taken = 0 THEN "resolved" ELSE "running"
       /\ expressionGroups' =
            IF taken = 0 THEN groupByExpressionSource(metadata, results)
            ELSE expressionGroups
  /\ UNCHANGED <<metadata, results, outcome>>
  /\ UNCHANGED <<loaderVars, now, metadataVars, regulatorVars, statVars>>

\* The worker that handled replicate i goes round its loop (line 670): it
\* shifts the next row and starts its fetch, or leaves the loop.  When the
\* last worker has left, Promise.all (line 703) resolves, fetchReplicateData
\* returns results and loadRegulatorData builds the payload (lines 785-786).
\* plots is results after the worker's last step.
NextRow(i, how, plots) ==
  /\ outcome' = [outcome EXCEPT ![i] = how]
  /\ IF queue # <<>>
       THEN /\ queue' = Tail(queue)
            /\ issued' = Append(issued, Head(queue))
            /\ phase' = [phase EXCEPT ![i] = "settled", ![Head(queue)] = "fetch"]
            /\ UNCHANGED <<workers, poolState, expressionGroups>>
       ELSE /\ phase' = [phase EXCEPT ![i] = "settled"]
            /\ workers' = workers - 1
            /\ poolState' = IF workers = 1 /\ poolState = "running"
                              THEN "resolved" ELSE poolState
            /\ expressionGroups' =
                 IF workers = 1 /\ poolState = "running"
                   THEN groupByExpressionSource(metadata, plots)
                   ELSE expressionGroups
            /\ UNCHANGED <<queue, issued>>

\* fetchWithAuth rejects (lines 676-681): logged, the row is skipped.
FetchRejects(i) ==
  /\ phase[i] = "fetch"
  /\ NextRow(i, "failed", results)
  /\ UNCHANGED <<metadata, results>>
  /\ UNCHANGED <<loaderVars, now, metadataVars, regulatorVars, statVars>>

\* fetchWithAuth resolves (line 677): a non-2xx response goes on to read its
\* body (line 684), another one to read the archive (line 690).
FetchResolves(i, ok) ==
  /\ phase[i] = "fetch"
  /\ phase' = [phase EXCEPT ![i] = IF ok THEN "body" ELSE "text"]
  /\ UNCHANGED <<metadata, queue, issued, workers, results, outcome,
                 poolState, expressionGroups>>
  /\ UNCHANGED <<loaderVars, now, metadataVars, regulatorVars, statVars>>

\* response.text() of a non-2xx response resolves (lines 684-686): logged,
\* the row is skipped.
TextResolves(i) ==
  /\ phase[i] = "text"
  /\ NextRow(i, "failed", results)
  /\ UNCHANGED <<metadata, results>>
  /\ UNCHANGED <<loaderVars, now, metadataVars, regulatorVars, statVars>>

\* response.text() of a non-2xx response rejects (line 684, outside any try):
\* the worker's promise rejects, and so does Promise.all (line 703); the
\* other workers go on.
TextRejects(i) ==
  /\ phase[i] = "text"
  /\ phase' = [phase EXCEPT ![i] = "settled"]
  /\ outcome' = [outcome EXCEPT ![i] = "failed"]
  /\ workers' = workers - 1
  /\ poolState' = "rejected"
  /\ UNCHANGED <<metadata, queue, issued, results, expressionGroups>>
  /\ UNCHANGED <<loaderVars, now, metadataVars, regulatorVars, statVars>>

\* Lines 689-699: reading the archive, extracting the CSV or parsing it
\* fails (caught and logged), or processPlotData returns null (no curve), or
\* it returns a curve, which line 695 stores.
BodySettles(i, how) ==
  /\ phase[i] = "body"
  /\ results' = IF how = "curve" THEN Append(results, i) ELSE results
  /\ NextRow(i, IF how = "curve" THEN "curve" ELSE "failed", results')
  /\ UNCHANGED metadata
  /\ UNCHANGED <<loaderVars, now, metadataVars, regulatorVars, statVars>>

PoolInit ==
  /\ metadata \in MetadataLists
  /\ queue = <<>>
  /\ issued = <<>>
  /\ phase = [i \in 1..MaxReplicates |-> "absent"]
  /\ workers = 0
  /\ results = <<>>
  /\ outcome = [i \in 1..MaxReplicates |-> "none"]
  /\ poolState = "init"
  /\ expressionGroups = <<>>

PoolIdle ==
  /\ metadata = <<>>
  /\ queue = <<>>
  /\ issued = <<>>
  /\ phase = [i \in 1..MaxReplicates |-> "absent"]
  /\ workers = 0
  /\ results = <<>>
  /\ outcome = [i \in 1..MaxReplicates |-> "none"]
  /\ poolState = "init"
  /\ expressionGroups = <<>>

(***************************************************************************)
(* Numbers.  A JavaScript number is an IEEE-754 binary64 value: every sum, *)
(* product, quotient and square root is the exact result rounded to the    *)
(* nearest representable value, ties to even.  The model keeps the         *)
(* rounding rule and cuts the significand from 53 to Precision bits;       *)
(* exponents are unbounded (no overflow to Infinity, no underflow).        *)
(* A finite number is m * 2^e with m odd, or m = 0 and e = 0.              *)
(***************************************************************************)
Missing == [missing |-> TRUE, m |-> 0, e |-> 0]

\* The values that are no finite number, under reserved exponents.
NaN == [missing |-> FALSE, m |-> 0, e |-> 1]
Infinity == [missing |-> FALSE, m |-> 0, e |-> 2]
NegativeInfinity == [missing |-> FALSE, m |-> 0, e |-> 3]

\* Number.isNaN, Number.isFinite
IsNaN(v) == v = NaN
IsFinite(v) == ~v.missing /\ (v.m # 0 \/ v.e = 0)

RECURSIVE Normalised(_, _)
Normalised(m, e) ==
  IF m = 0 THEN [missing |-> FALSE, m |-> 0, e |-> 0]
  ELSE IF m % 2 = 0 THEN Normalised(m \div 2, e + 1)
  ELSE [missing |-> FALSE, m |-> m, e |-> e]

Abs(n) == IF n < 0 THEN -n ELSE n

RECURSIVE BitLength(_)
BitLength(n) == IF n = 0 THEN 0 ELSE 1 + BitLength(n \div 2)

\* m * 2^e rounded to Precision significant bits, ties to even.
Rounded(m, e) ==
  LET a == Abs(m)
      k == BitLength(a) - Precision
  IN IF k <= 0 THEN Normalised(m, e)
     ELSE LET q == a \div 2^k
              r == a % 2^k
              half == 2^(k - 1)
              up == IF r > half \/ (r = half /\ q % 2 = 1) THEN 1 ELSE 0
          IN Normalised((IF m < 0 THEN -1 ELSE 1) * (q + up), e + k)

\* A number literal.
Num(n) == Normalised(n, 0)

Min2(a, b) == IF a < b THEN a ELSE b

\* The exact difference a - b as an integer multiple of 2^Min2(a.e, b.e).
ExactDiff(a, b) ==
  LET lo == Min2(a.e, b.e)
  IN a.m * 2^(a.e - lo) - b.m * 2^(b.e - lo)

Less(a, b) == ExactDiff(a, b) < 0

\* a + b, a - b, a * b as the hardware computes them.
Plus(a, b) ==
  LET lo == Min2(a.e, b.e)
  IN Rounded(a.m * 2^(a.e - lo) + b.m * 2^(b.e - lo), lo)

Minus(a, b) == Rounded(ExactDiff(a, b), Min2(a.e, b.e))

Times(a, b) == Rounded(a.m * b.m, a.e + b.e)

\* a / b for b # 0: the quotient is taken with Precision + 2 bits and a
\* sticky bit for the remainder, then rounded.
Divided(a, b) ==
  LET n == Abs(a.m)
      d == Abs(b.m)
      s == Precision + 2 + BitLength(d)
      q == (n * 2^s) \div d
      sticky == IF (n * 2^s) % d = 0 THEN 0 ELSE 1
      sign == IF (a.m < 0) # (b.m < 0) THEN -1 ELSE 1
  IN Rounded(sign * (2 * q + sticky), a.e - b.e - s - 1)

\* The integer square root of n, searched between lo and hi.
RECURSIVE IsqrtBetween(_, _, _)
IsqrtBetween(n, lo, hi) ==
  IF lo = hi THEN lo
  ELSE LET mid == (lo + hi + 1) \div 2
       IN IF mid * mid <= n THEN IsqrtBetween(n, mid, hi)
          ELSE IsqrtBetween(n, lo, mid - 1)

Isqrt(n) == IsqrtBetween(n, 0, 2^((BitLength(n) + 1) \div 2))

\* Math.sqrt(a) for a >= 0.
Sqrt(a) ==
  LET odd == a.e % 2 # 0
      m0 == IF odd THEN 2 * a.m ELSE a.m
      e0 == IF odd THEN a.e - 1 ELSE a.e
      t == Precision + 2
      scaled == m0 * 4^t
      s == Isqrt(scaled)
      sticky == IF s * s = scaled THEN 0 ELSE 1
  IN Rounded(2 * s + sticky, (e0 \div 2) - t - 1)

\* a < b on numbers, the infinities included; NaN compares with nothing.
NumberLess(a, b) ==
  IF a = NaN \/ b = NaN THEN FALSE
  ELSE IF a = Infinity \/ b = NegativeInfinity THEN FALSE
  ELSE IF a = NegativeInfinity \/ b = Infinity THEN TRUE
  ELSE Less(a, b)

(***************************************************************************)
(* computePearsonCorrelation, correlation-data.ts:46-83                    *)
(***************************************************************************)
\* Lines 59-64: one pair of present values enters the sums.
Accumulated(acc, x, y) ==
  [count |-> acc.count + 1,
   sumX |-> Plus(acc.sumX, x),
   sumY |-> Plus(acc.sumY, y),
   sumXX |-> Plus(acc.sumXX, Times(x, x)),
   sumYY |-> Plus(acc.sumYY, Times(y, y)),
   sumXY |-> Plus(acc.sumXY, Times(x, y))]

\* Line 57: a position where a value is missing is skipped.
Step(acc, x, y) ==
  IF x.missing \/ y.missing THEN acc ELSE Accumulated(acc, x, y)

\* Lines 47-65: the sums over the index positions where both values are
\* present.
RECURSIVE Sums(_, _, _)
Sums(xs, ys, index) ==
  IF index = 0
    THEN [count |-> 0, sumX |-> Num(0), sumY |-> Num(0), sumXX |-> Num(0),
          sumYY |-> Num(0), sumXY |-> Num(0)]
    ELSE Step(Sums(xs, ys, index - 1), xs[index], ys[index])

\* Lines 80-82: the quotient kept within [-1, 1].
Clamped(c) ==
  IF Less(Num(1), c) THEN Num(1)
  ELSE IF Less(c, Num(-1)) THEN Num(-1)
  ELSE c

\* Lines 76-82.  The tests for NaN and for a non-finite quotient (lines 76
\* and 79) never fire on numbers without overflow.
CorrelationOver(cov, denominator) ==
  IF denominator.m = 0 THEN Num(0)
  ELSE Clamped(Divided(cov, denominator))

\* Lines 73-75
CorrelationOf(cov, varX, varY) ==
  IF ~Less(Num(0), varX) \/ ~Less(Num(0), varY) THEN Num(0)
  ELSE CorrelationOver(cov, Sqrt(Times(varX, varY)))

\* Lines 67-71
CorrelationOfSums(s, count) ==
  IF s.count < 2 THEN Num(0)
  ELSE CorrelationOf(
         Minus(s.sumXY, Divided(Times(s.sumX, s.sumY), count)),
         Minus(s.sumXX, Divided(Times(s.sumX, s.sumX), count)),
         Minus(s.sumYY, Divided(Times(s.sumY, s.sumY), count)))

CountOf(s) == Num(s.count)

\* computePearsonCorrelation, lines 46-83
CorrelationFrom(s) == CorrelationOfSums(s, CountOf(s))

computePearsonCorrelation(xs, ys) == CorrelationFrom(Sums(xs, ys, Len(xs)))

\* The values a cell of a column can hold.
Cells == {Missing, Num(1), Num(3), Num(5)}

\* The columns of n cells.
ColumnsOf(n) == [1..n -> Cells]

NotCalled == [xy |-> Missing, yx |-> Missing, xx |-> Missing]

\* computePearsonCorrelation(xValues, yValues) and the call with the
\* arguments exchanged.
Correlate ==
  /\ correlation.xy = Missing
  /\ correlation' = [correlation EXCEPT
                       !.xy = computePearsonCorrelation(xValues, yValues),
                       !.yx = computePearsonCorrelation(yValues, xValues)]
  /\ UNCHANGED <<xValues, yValues>>
  /\ UNCHANGED <<serverVars, binomialVars, clientVars, matrixVars, coerceVars, plotVars>>

\* computePearsonCorrelation(xValues, xValues)
CorrelateSelf ==
  /\ correlation.xx = Missing
  /\ correlation' = [correlation EXCEPT
                       !.xx = computePearsonCorrelation(xValues, xValues)]
  /\ UNCHANGED <<xValues, yValues>>
  /\ UNCHANGED <<serverVars, binomialVars, clientVars, matrixVars, coerceVars, plotVars>>

PearsonInit ==
  /\ \E n \in 0..MaxSamples :
       /\ xValues \in ColumnsOf(n)
       /\ yValues \in ColumnsOf(n)
  /\ correlation = NotCalled

PearsonIdle ==
  /\ xValues = <<>>
  /\ yValues = <<>>
  /\ correlation = NotCalled

PearsonNext ==
  \/ Correlate
  \/ CorrelateSelf

(***************************************************************************)
(* Numeric coercion: parseNumericValue (correlation-data.ts:34-44) and     *)
(* parseNumber (part_004:38-57 and 320-331, the same text twice)           *)
(***************************************************************************)
\* The strings of the model, each with what String.prototype.trim,
\* toLowerCase (of the trimmed string) and Number (of the trimmed string)
\* make of it.
Strings ==
  { [text |-> "",          trimmed |-> "",          lowered |-> "",          number |-> Num(0)],
    [text |-> "   ",       trimmed |-> "",          lowered |-> "",          number |-> Num(0)],
    [text |-> "0",         trimmed |-> "0",         lowered |-> "0",         number |-> Num(0)],
    [text |-> "1",         trimmed |-> "1",         lowered |-> "1",         number |-> Num(1)],
    [text |-> " 3 ",       trimmed |-> "3",         lowered |-> "3",         number |-> Num(3)],
    [text |-> "-5",        trimmed |-> "-5",        lowered |-> "-5",        number |-> Num(-5)],
    [text |-> "0.5",       trimmed |-> "0.5",       lowered |-> "0.5",       number |-> Normalised(1, -1)],
    [text |-> "0.015625",  trimmed |-> "0.015625",  lowered |-> "0.015625",  number |-> Normalised(1, -6)],
    [text |-> "2",         trimmed |-> "2",         lowered |-> "2",         number |-> Num(2)],
    [text |-> "4",         trimmed |-> "4",         lowered |-> "4",         number |-> Num(4)],
    [text |-> "5",         trimmed |-> "5",         lowered |-> "5",         number |-> Num(5)],
    [text |-> "NA",        trimmed |-> "NA",        lowered |-> "na",        number |-> NaN],
    [text |-> "NaN",       trimmed |-> "NaN",       lowered |-> "nan",       number |-> NaN],
    [text |-> " null",     trimmed |-> "null",      lowered |-> "null",      number |-> NaN],
    [text |-> "None",      trimmed |-> "None",      lowered |-> "none",      number |-> NaN],
    [text |-> "abc",       trimmed |-> "abc",       lowered |-> "abc",       number |-> NaN],
    [text |-> "Infinity",  trimmed |-> "Infinity",  lowered |-> "infinity",  number |-> Infinity],
    [text |-> "-Infinity", trimmed |-> "-Infinity", lowered |-> "-infinity", number |-> NegativeInfinity],
    [text |-> "1e999",     trimmed |-> "1e999",     lowered |-> "1e999",     number |-> Infinity] }

\* The raw inputs: null, undefined, a number, a string, anything else.
RawValues ==
  {[type |-> t, string |-> "", number |-> Num(0)] :
     t \in {"null", "undefined", "boolean"}}
  \cup {[type |-> "number", string |-> "", number |-> n] :
          n \in {Num(0), Num(1), Num(-5), NaN, Infinity, NegativeInfinity}}
  \cup {[type |-> "string", string |-> str.text, number |-> Num(0)] :
          str \in Strings}

StringOf(value) == CHOOSE str \in Strings : str.text = value.string

\* part_004:10 and 289
NULL_LIKE_VALUES == {"", "na", "nan", "none", "null"}

\* parseNumericValue, correlation-data.ts:34-44
parseNumericValue(value) ==
  IF value.type \in {"null", "undefined"} THEN Missing
  ELSE IF value.type = "number"
    THEN (IF IsFinite(value.number) THEN value.number ELSE Missing)
  ELSE IF value.type # "string" THEN Missing
  ELSE IF StringOf(value).trimmed = "" THEN Missing
  ELSE IF IsFinite(StringOf(value).number) THEN StringOf(value).number
  ELSE Missing

\* parseNumber, part_004:320-331 (and 38-57)
parseNumber(value) ==
  IF value.type \in {"null", "undefined"} THEN Missing
  ELSE IF value.type = "number"
    THEN (IF IsNaN(value.number) THEN Missing ELSE value.number)
  ELSE IF value.type # "string" THEN Missing
  ELSE IF StringOf(value).trimmed = "" THEN Missing
  ELSE IF StringOf(value).lowered \in NULL_LIKE_VALUES THEN Missing
  ELSE IF IsNaN(StringOf(value).number) THEN Missing
  ELSE StringOf(value).number

\* One entry per routine: <<>> before the call, then <<what it returned>>.
NotParsed == [numericValue |-> <<>>, regulator |-> <<>>, metadata |-> <<>>]

\* parseNumericValue(raw)
CallParseNumericValue ==
  /\ parsed.numericValue = <<>>
  /\ parsed' = [parsed EXCEPT !.numericValue = <<parseNumericValue(raw)>>]
  /\ UNCHANGED raw
  /\ UNCHANGED <<serverVars, binomialVars, clientVars, pearsonVars, matrixVars, plotVars>>

\* parseNumber(raw) of the regulator route
CallParseNumber ==
  /\ parsed.regulator = <<>>
  /\ parsed' = [parsed EXCEPT !.regulator = <<parseNumber(raw)>>]
  /\ UNCHANGED raw
  /\ UNCHANGED <<serverVars, binomialVars, clientVars, pearsonVars, matrixVars, plotVars>>

\* parseNumber(raw) of the metadata route
CallParseNumberMetadata ==
  /\ parsed.metadata = <<>>
  /\ parsed' = [parsed EXCEPT !.metadata = <<parseNumber(raw)>>]
  /\ UNCHANGED raw
  /\ UNCHANGED <<serverVars, binomialVars, clientVars, pearsonVars, matrixVars, plotVars>>

CoerceInit ==
  /\ raw \in RawValues
  /\ parsed = NotParsed

CoerceIdle ==
  /\ raw = [type |-> "null", string |-> "", number |-> Num(0)]
  /\ parsed = NotParsed

CoerceNext ==
  \/ CallParseNumericValue
  \/ CallParseNumber
  \/ CallParseNumberMetadata

(***************************************************************************)
(* loadCorrelationData, computeCorrelationMatrix, sortCorrelationPayload   *)
(* and the data path of fetchCorrelationFromApi,                           *)
(* correlation-data.ts:85-138 and 178-244                                  *)
(***************************************************************************)
\* The column headers of the model with their collation keys: localeCompare
\* orders strings by key and returns 0 for two distinguishable strings that
\* are canonically equivalent ("cafe" with its accent precomposed, and as a
\* letter followed by a combining accent).
Collation ==
  [alpha |-> 1, cafe_nfc |-> 2, cafe_nfd |-> 2, target_symbol |-> 3]

LabelPool == DOMAIN Collation

\* a.localeCompare(b) <= 0, line 113
ComparesNotAfter(a, b) == Collation[a] <= Collation[b]

\* The columns a file can hold, as Papa.parse delivers their cells.
ColumnPool ==
  { <<"1", " 3 ", "-5">>, <<"1", "1", "1">>, <<"0.5", "NA", " 3 ">> }

RawCell(text) == [type |-> "string", string |-> text, number |-> Num(0)]

\* A column with header l and cells c can follow the columns of t: a new
\* header, the same number of rows.
Fits(t, l, c) ==
  \A i \in 1..Len(t) : t[i].label # l /\ Len(t[i].cells) = Len(c)

\* The tables of exactly n columns.
RECURSIVE TablesOf(_)
TablesOf(n) ==
  IF n = 0 THEN {<<>>}
  ELSE UNION {{Append(t, [label |-> l, cells |-> c]) :
                 l \in {k \in LabelPool : Fits(t, k, c)}} :
                t \in TablesOf(n - 1), c \in ColumnPool}

Tables == UNION {TablesOf(n) : n \in 0..MaxColumns}

NotBuilt ==
  [source |-> "none", labels |-> <<>>, matrix |-> <<>>, min |-> Missing,
   max |-> Missing]

\* The index pairs of lines 91-92 with rowIndex < colIndex, in loop order.
RECURSIVE PairsFrom(_, _, _)
PairsFrom(rowIndex, colIndex, size) ==
  IF rowIndex > size THEN <<>>
  ELSE IF colIndex > size THEN PairsFrom(rowIndex + 1, rowIndex + 2, size)
  ELSE <<<<rowIndex, colIndex>>>> \o PairsFrom(rowIndex, colIndex + 1, size)

\* Lines 88-89 and 99-102: min and max over the cells of the pairs.
RECURSIVE Extremes(_, _, _)
Extremes(matrix, pairs, n) ==
  IF n = 0 THEN [min |-> Infinity, max |-> NegativeInfinity]
  ELSE LET acc == Extremes(matrix, pairs, n - 1)
           cell == matrix[pairs[n][1]][pairs[n][2]]
       IN [min |-> IF acc.min = Infinity \/ Less(cell, acc.min)
                     THEN cell ELSE acc.min,
           max |-> IF acc.max = NegativeInfinity \/ Less(acc.max, cell)
                     THEN cell ELSE acc.max]

\* Faulty variant of OffDiagonalPairs, which the properties must tell apart:
\* the test of line 99 dropped, so the diagonal enters min and max.
AllPairs(size) ==
  PairsFrom(1, 2, size) \o [i \in 1..size |-> <<i, i>>]

\* The pairs that pass `rowIndex !== colIndex`, line 99.
OffDiagonalPairs(size) == PairsFrom(1, 2, size)

Max2(a, b) == IF a < b THEN b ELSE a

\* Lines 93-97: the cell computed for the pair with rowIndex <= colIndex is
\* written at both positions.
CorrelationCell(columns, i, j) ==
  IF i = j THEN Num(1)
  ELSE computePearsonCorrelation(columns[Min2(i, j)], columns[Max2(i, j)])

\* Lines 106-109
MatrixWithExtremes(matrix, extremes) ==
  [matrix |-> matrix,
   min |-> IF extremes.min = Infinity THEN Num(0) ELSE extremes.min,
   max |-> IF extremes.max = NegativeInfinity THEN Num(1) ELSE extremes.max]

MatrixWithPairs(matrix, pairs) ==
  MatrixWithExtremes(matrix, Extremes(matrix, pairs, Len(pairs)))

\* computeCorrelationMatrix, lines 85-110
computeCorrelationMatrix(columns) ==
  MatrixWithPairs(
    [rowIndex \in 1..Len(columns) |->
      [colIndex \in 1..Len(columns) |->
        CorrelationCell(columns, rowIndex, colIndex)]],
    OffDiagonalPairs(Len(columns)))

\* Array.prototype.sort of line 113 (a stable sort) on the indices 1..n:
\* index n goes behind every index whose label does not compare after its.
RECURSIVE SortedOrder(_, _)
SortedOrder(labels, n) ==
  IF n = 0 THEN <<>>
  ELSE LET before == SortedOrder(labels, n - 1)
           keep == {i \in 1..Len(before) :
                      ComparesNotAfter(labels[before[i]], labels[n])}
           at == IF keep = {} THEN 0
                 ELSE CHOOSE i \in keep : \A j \in keep : j <= i
       IN SubSeq(before, 1, at) \o <<n>> \o SubSeq(before, at + 1, Len(before))

\* `payload.matrix[rowIndex]?.[columnIndex] ?? 0`, line 129
CellOrZero(matrix, rowIndex, columnIndex) ==
  IF rowIndex \in 1..Len(matrix)
    THEN IF columnIndex \in 1..Len(matrix[rowIndex])
           THEN matrix[rowIndex][columnIndex]
           ELSE Num(0)
    ELSE Num(0)

\* sortCorrelationPayload, lines 112-138
sortCorrelationPayload(payload) ==
  LET order == SortedOrder(payload.labels, Len(payload.labels))
      isAlreadySorted == \A i \in 1..Len(order) : order[i] = i
  IN IF isAlreadySorted THEN payload
     ELSE [payload EXCEPT
             !.labels = [i \in 1..Len(order) |-> payload.labels[order[i]]],
             !.matrix = [i \in 1..Len(order) |->
                          [j \in 1..Len(order) |->
                            CellOrZero(payload.matrix, order[i], order[j])]]]

\* The option of the perturbation loader, line 307: no column is dropped.
dropColumns == {}

\* Line 201: the fields kept as labels, in file order.
RECURSIVE KeptColumns(_, _)
KeptColumns(t, n) ==
  IF n = 0 THEN <<>>
  ELSE IF t[n].label # "target_symbol" /\ t[n].label \notin dropColumns
    THEN Append(KeptColumns(t, n - 1), t[n])
    ELSE KeptColumns(t, n - 1)

\* Lines 203-211: the cells of the kept columns through parseNumericValue.
columnValues(kept) ==
  [i \in 1..Len(kept) |->
    [row \in 1..Len(kept[i].cells) |->
      parseNumericValue(RawCell(kept[i].cells[row]))]]

\* Line 214
SortedFilePayload(kept, computed) ==
  sortCorrelationPayload(
    [source |-> "file",
     labels |-> [i \in 1..Len(kept) |-> kept[i].label],
     matrix |-> computed.matrix,
     min |-> computed.min,
     max |-> computed.max])

\* Lines 213-214
PayloadOfColumns(kept) ==
  SortedFilePayload(kept, computeCorrelationMatrix(columnValues(kept)))

\* loadCorrelationData, lines 192-214, on the table loadCsvTable returned; a
\* table without rows has no columns (line 193).
loadCorrelationData(t) ==
  IF t = <<>>
    THEN [source |-> "file", labels |-> <<>>, matrix |-> <<>>,
          min |-> Num(0), max |-> Num(1)]
    ELSE PayloadOfColumns(KeptColumns(t, Len(t)))

\* The bodies the remote endpoint can answer that pass
\* isValidCorrelationPayload.
JsonPayloads ==
  { [source |-> "api", labels |-> <<"alpha", "cafe_nfc">>,
     matrix |-> << <<Num(1), Normalised(1, -1)>>, <<Normalised(1, -1), Num(1)>> >>,
     min |-> Normalised(1, -1), max |-> Normalised(1, -1)],
    [source |-> "api", labels |-> <<"cafe_nfc", "alpha">>,
     matrix |-> << <<Num(1), Normalised(1, -1)>>, <<Normalised(1, -1), Num(1)>> >>,
     min |-> Normalised(1, -1), max |-> Normalised(1, -1)],
    [source |-> "api", labels |-> <<"alpha", "cafe_nfc">>,
     matrix |-> << <<Num(1), Num(3)>>, <<Num(-5), Num(1)>> >>,
     min |-> Num(-5), max |-> Num(3)],
    [source |-> "api", labels |-> <<"cafe_nfc", "alpha">>,
     matrix |-> << <<Num(1)>> >>,
     min |-> Num(0), max |-> Num(1)],
    [source |-> "api", labels |-> <<"alpha">>,
     matrix |-> <<>>,
     min |-> Num(0), max |-> Num(1)] }

\* The orders a table's columns can be written in.
ColumnOrders(n) ==
  {p \in [1..n -> 1..n] : \A i, j \in 1..n : i # j => p[i] # p[j]}

permuteColumns(t, p) == [i \in 1..Len(t) |-> t[p[i]]]

\* loadCorrelationData resolves with the payload of the local file.
LoadFile ==
  /\ built = NotBuilt
  /\ built' = loadCorrelationData(table)
  /\ UNCHANGED <<table, rebuilt>>
  /\ UNCHANGED <<serverVars, binomialVars, clientVars, pearsonVars, coerceVars, plotVars>>

\* The same file with its columns in the order p.
LoadPermuted(p) ==
  /\ built.source = "file"
  /\ rebuilt = NotBuilt
  /\ rebuilt' = loadCorrelationData(permuteColumns(table, p))
  /\ UNCHANGED <<table, built>>
  /\ UNCHANGED <<serverVars, binomialVars, clientVars, pearsonVars, coerceVars, plotVars>>

\* No local table: fetchCorrelationFromApi returns the remote body json
\* (lines 228-239).
LoadApi(json) ==
  /\ table = <<>>
  /\ built = NotBuilt
  /\ built' = sortCorrelationPayload(json)
  /\ UNCHANGED <<table, rebuilt>>
  /\ UNCHANGED <<serverVars, binomialVars, clientVars, pearsonVars, coerceVars, plotVars>>

MatrixInit ==
  /\ table \in Tables
  /\ built = NotBuilt
  /\ rebuilt = NotBuilt

MatrixIdle ==
  /\ table = <<>>
  /\ built = NotBuilt
  /\ rebuilt = NotBuilt

MatrixNext ==
  \/ LoadFile
  \/ \E p \in ColumnOrders(Len(table)) : LoadPermuted(p)
  \/ \E json \in JsonPayloads : LoadApi(json)

(***************************************************************************)
(* binomialPmf, binomialCdf, binomialInv and binomialConfidenceInterval,   *)
(* part_004:344-393.  The code computes a probability mass as              *)
(* Math.exp(logBinomialCoefficient + k log p + (n - k) log(1 - p)); the    *)
(* model takes the value this approximates, C(n, k) p^k (1 - p)^(n - k),   *)
(* as an exact fraction over a common denominator.  The two differ by a    *)
(* few units in the last place, which decides a comparison with the target *)
(* only when the two sides are that close; the probabilities and targets   *)
(* of the model keep them apart.                                           *)
(***************************************************************************)
\* A finite number that is an integer, and its value.
IsInteger(v) == IsFinite(v) /\ v.e >= 0
IntegerOf(v) == v.m * 2^v.e

\* Math.floor of a number >= 0 that is finite.
Floor(v) == IF v.e >= 0 THEN IntegerOf(v) ELSE v.m \div 2^(-v.e)

\* The fractions 0, 1 and NaN.
ZeroFraction == [nan |-> FALSE, num |-> 0, den |-> 1]
OneFraction == [nan |-> FALSE, num |-> 1, den |-> 1]
NaNFraction == [nan |-> TRUE, num |-> 0, den |-> 1]

\* f >= g; a comparison with NaN is false.
AtLeast(f, g) == ~f.nan /\ ~g.nan /\ f.num * g.den >= g.num * f.den

\* n! / (k! (n - k)!)
RECURSIVE BinomialCoefficient(_, _)
BinomialCoefficient(n, k) ==
  IF k = 0 THEN 1
  ELSE (BinomialCoefficient(n, k - 1) * (n - k + 1)) \div k

\* Lines 365-366 for 0 < p < 1 and an integer n, p = p.m / 2^(-p.e): the
\* numerator of the mass over the denominator 2^(-p.e * n).
MassNumerator(k, n, p) ==
  BinomialCoefficient(n, k) * p.m^k * (2^(-p.e) - p.m)^(n - k)

\* logFactorial, lines 344-351, of an n that is no integer reads a cell of
\* the cache that was never written: undefined, and the mass is NaN.
\* Of Infinity the loop of lines 347-349 never ends (see InvReturns).
\* binomialPmf, lines 358-367
binomialPmf(k, n, p) ==
  IF ~NumberLess(Num(0), p) THEN (IF k = 0 THEN OneFraction ELSE ZeroFraction)
  ELSE IF ~NumberLess(p, Num(1))
    THEN (IF Num(k) = n THEN OneFraction ELSE ZeroFraction)
  ELSE IF ~IsInteger(n) \/ k > IntegerOf(n) THEN NaNFraction
  ELSE [nan |-> FALSE, num |-> MassNumerator(k, IntegerOf(n), p),
        den |-> 2^(-p.e * IntegerOf(n))]

\* Lines 371-374: the sum of the masses of 0..k, all over one denominator.
RECURSIVE Cumulative(_, _, _)
Cumulative(k, n, p) ==
  IF k = 0 THEN binomialPmf(0, n, p)
  ELSE LET rest == Cumulative(k - 1, n, p)
           mass == binomialPmf(k, n, p)
       IN IF rest.nan \/ mass.nan THEN NaNFraction
          ELSE IF rest.den = mass.den
            THEN [nan |-> FALSE, num |-> rest.num + mass.num, den |-> rest.den]
          ELSE [nan |-> FALSE, num |-> rest.num * mass.den + mass.num * rest.den,
                den |-> rest.den * mass.den]

\* Line 375: Math.min(1, cumulative); Math.min with NaN is NaN.
CappedAtOne(cumulative) ==
  IF cumulative.nan THEN NaNFraction
  ELSE IF cumulative.num > cumulative.den THEN OneFraction
  ELSE cumulative

\* binomialCdf, lines 370-376
binomialCdf(k, n, p) == CappedAtOne(Cumulative(k, n, p))

\* The loop of lines 381-385 ends: n is finite, or the scan stops at k = 0.
\* With n = Infinity and p > 0 it never does (for 0 < p < 1 logFactorial
\* never returns; for p >= 1 no k equals n).
InvReturns(target, n, p) ==
  \/ target.num <= 0
  \/ target.num >= target.den
  \/ n # Infinity
  \/ ~NumberLess(Num(0), p)

\* The values of k the loop of line 381 visits.
ScannedUpTo(n) == IF n = Infinity THEN 0 ELSE Floor(n)

\* The least element of a non-empty set of integers.
Least(S) == CHOOSE k \in S : \A j \in S : k <= j

\* Lines 381-386, the scan.
FirstReaching(target, n, p, scanned) ==
  IF \E k \in scanned : AtLeast(binomialCdf(k, n, p), target)
    THEN Num(Least({k \in scanned : AtLeast(binomialCdf(k, n, p), target)}))
    ELSE n

\* binomialInv, lines 378-387, for n >= 0 and a call that returns.
binomialInv(target, n, p) ==
  IF target.num <= 0 THEN Num(0)
  ELSE IF target.num >= target.den THEN n
  ELSE FirstReaching(target, n, p, 0..ScannedUpTo(n))

\* Line 388: alpha = 0.05, so alpha / 2 and 1 - alpha / 2.
LowerTarget == [nan |-> FALSE, num |-> 1, den |-> 40]
UpperTarget == [nan |-> FALSE, num |-> 39, den |-> 40]

\* Lines 390-391: binomialInv(...) / trials
OverTrials(k, trials) ==
  IF trials = Infinity THEN (IF k = Infinity THEN NaN ELSE Num(0))
  ELSE Divided(k, trials)

\* binomialConfidenceInterval, lines 388-393, with the default alpha.
binomialConfidenceInterval(trials, probability) ==
  IF ~NumberLess(Num(0), trials) THEN <<Num(0), Num(0)>>
  ELSE <<OverTrials(binomialInv(LowerTarget, trials, probability), trials),
         OverTrials(binomialInv(UpperTarget, trials, probability), trials)>>

\* The call of line 527 returns.
IntervalReturns(trials, probability) ==
  \/ ~NumberLess(Num(0), trials)
  \/ InvReturns(LowerTarget, trials, probability)

\* The arguments the calls are made with.
Targets ==
  {[nan |-> FALSE, num |-> t[1], den |-> t[2]] :
     t \in {<<-1, 1>>, <<0, 1>>, <<1, 40>>, <<1, 2>>, <<39, 40>>, <<1, 1>>, <<3, 2>>}}
Trials == {Num(k) : k \in 0..MaxTrials}
Probabilities ==
  {Num(-5), Num(0), Normalised(1, -6), Normalised(1, -1), Normalised(3, -2),
   Num(1), Num(3)}

\* One entry per routine: <<>> before the call, then <<what it returned>>.
NotComputed == [inv |-> <<>>, interval |-> <<>>]

\* binomialInv(target, n, p)
CallBinomialInv ==
  /\ binomialOut.inv = <<>>
  /\ InvReturns(binomialArgs.target, binomialArgs.n, binomialArgs.p)
  /\ binomialOut' =
       [binomialOut EXCEPT
          !.inv = <<binomialInv(binomialArgs.target, binomialArgs.n,
                                binomialArgs.p)>>]
  /\ UNCHANGED binomialArgs
  /\ UNCHANGED <<serverVars, pearsonVars, matrixVars, coerceVars, plotVars,
                 clientVars>>

\* binomialConfidenceInterval(n, p)
CallBinomialConfidenceInterval ==
  /\ binomialOut.interval = <<>>
  /\ IntervalReturns(binomialArgs.n, binomialArgs.p)
  /\ binomialOut' =
       [binomialOut EXCEPT
          !.interval = <<binomialConfidenceInterval(binomialArgs.n,
                                                    binomialArgs.p)>>]
  /\ UNCHANGED binomialArgs
  /\ UNCHANGED <<serverVars, pearsonVars, matrixVars, coerceVars, plotVars,
                 clientVars>>

BinomialInit ==
  /\ binomialArgs \in [target : Targets, n : Trials, p : Probabilities]
  /\ binomialOut = NotComputed

BinomialIdle ==
  /\ binomialArgs = [target |-> LowerTarget, n |-> Num(0), p |-> Num(0)]
  /\ binomialOut = NotComputed

BinomialNext ==
  \/ CallBinomialInv
  \/ CallBinomialConfidenceInterval

(***************************************************************************)
(* parseReplicateCsv and processPlotData, part_004:458-537                 *)
(***************************************************************************)
\* What the cells of a replicate CSV can hold.
RankCells == {"1", " 3 ", "0.5", "-5", "Infinity"}
ResponsiveCells == {"1", "0"}
RandomCells == {"0.5", "0.015625", "NA", "Infinity"}

\* The rows Papa.parse delivers (RawReplicateRow, lines 452-456).
RawReplicateRows ==
  [rank_bin : RankCells, responsive : ResponsiveCells, random : RandomCells]

\* parseBoolean, lines 333-342, of a string cell: TRUE, FALSE or "null".
parseBoolean(text) ==
  LET lowered == StringOf(RawCell(text)).lowered
  IN IF lowered = "" THEN "null"
     ELSE IF lowered \in {"true", "1", "yes", "y", "t"} THEN "true"
     ELSE IF lowered \in {"false", "0", "no", "n", "f"} THEN "false"
     ELSE "null"

\* Line 458: the default of nBins.
nBins == 150

\* The test of line 471 on the rank of a row.
RankAccepted(rank) ==
  /\ ~rank.missing
  /\ NumberLess(Num(0), rank)
  /\ ~NumberLess(Num(nBins), rank)

\* parseReplicateCsv, lines 469-472: the filter over parsed.data.
RECURSIVE parseReplicateCsv(_)
parseReplicateCsv(rows) ==
  IF rows = <<>> THEN <<>>
  ELSE IF RankAccepted(parseNumber(RawCell(Head(rows).rank_bin)))
    THEN <<Head(rows)>> \o parseReplicateCsv(Tail(rows))
    ELSE parseReplicateCsv(Tail(rows))

\* The position of rankBin among the keys of grouped, 0 when absent.
KeyIndex(grouped, rankBin) ==
  IF \E i \in 1..Len(grouped) : grouped[i].rank = rankBin
    THEN CHOOSE i \in 1..Len(grouped) : grouped[i].rank = rankBin
    ELSE 0

\* Lines 500-507: the entry of the row's bin after the row.
UpdatedEntry(existing, responsiveValue, randomValue) ==
  [rank |-> existing.rank,
   successes |-> existing.successes + (IF responsiveValue = "true" THEN 1 ELSE 0),
   random |-> IF IsFinite(randomValue) THEN randomValue ELSE existing.random]

\* Line 500: grouped.get(rankBin) ?? { successes: 0, random: randomValue ?? 0 }
ExistingEntry(grouped, at, rankBin, randomValue) ==
  IF at # 0 THEN grouped[at]
  ELSE [rank |-> rankBin, successes |-> 0,
        random |-> IF randomValue.missing THEN Num(0) ELSE randomValue]

\* Line 507: grouped.set(rankBin, existing)
WithEntry(grouped, at, entry) ==
  IF at # 0 THEN [grouped EXCEPT ![at] = entry] ELSE Append(grouped, entry)

GroupedWith(grouped, at, rankBin, responsiveValue, randomValue) ==
  WithEntry(grouped, at,
            UpdatedEntry(ExistingEntry(grouped, at, rankBin, randomValue),
                         responsiveValue, randomValue))

\* Lines 494-508: one row enters grouped (the Map, in insertion order).
GroupedAfter(grouped, rankBin, row) ==
  IF rankBin.missing \/ ~NumberLess(Num(0), rankBin) THEN grouped
  ELSE GroupedWith(grouped, KeyIndex(grouped, rankBin), rankBin,
                   parseBoolean(row.responsive),
                   parseNumber(RawCell(row.random)))

RECURSIVE Grouped(_, _)
Grouped(rows, n) ==
  IF n = 0 THEN <<>>
  ELSE GroupedAfter(Grouped(rows, n - 1),
                    parseNumber(RawCell(rows[n].rank_bin)), rows[n])

\* Line 512: the entries by ascending rank.
RECURSIVE SortedByRank(_)
SortedByRank(entries) ==
  IF entries = {} THEN <<>>
  ELSE LET least == CHOOSE e \in entries :
                      \A f \in entries : ~NumberLess(f.rank, e.rank)
       IN <<least>> \o SortedByRank(entries \ {least})

\* Faulty variant of CumulativeSuccesses: the successes of the bin alone.
BinSuccesses(sorted, i) == IF i = 0 THEN 0 ELSE sorted[i].successes

\* Line 525: cumulativeSuccesses at the entry of index i.
RECURSIVE CumulativeSuccesses(_, _)
CumulativeSuccesses(sorted, i) ==
  IF i = 0 THEN 0 ELSE CumulativeSuccesses(sorted, i - 1) + sorted[i].successes

\* Line 526: cumulativeSuccesses / rank
Ratio(cumulativeSuccesses, rank) ==
  IF rank = Infinity THEN Num(0)
  ELSE Divided(Num(cumulativeSuccesses), rank)

NullCurve ==
  [null |-> TRUE, x |-> <<>>, y |-> <<>>, random |-> <<>>, ciLower |-> <<>>,
   ciUpper |-> <<>>]

\* Line 520: grouped.get(sortedRanks[0])?.random ?? 0
BaselineRandom(sorted) == sorted[1].random

\* The ranks > 0 and the baselines the cells of the model can produce.
CellRanks ==
  {rank \in {parseNumber(RawCell(cell)) : cell \in RankCells} :
     ~rank.missing /\ NumberLess(Num(0), rank)}
CellBaselines ==
  {Num(0)} \cup
  {random \in {parseNumber(RawCell(cell)) : cell \in RandomCells} :
     ~random.missing}

\* binomialConfidenceInterval on them, computed once; NaN marks a call that
\* does not return.
CellIntervals ==
  [rank \in CellRanks, baseline \in CellBaselines |->
     IF IntervalReturns(rank, baseline)
       THEN binomialConfidenceInterval(rank, baseline)
       ELSE <<NaN, NaN>>]

\* Line 527: binomialConfidenceInterval(rank, baselineRandom)
IntervalAt(rank, baselineRandom) ==
  IF rank \in CellRanks /\ baselineRandom \in CellBaselines
    THEN CellIntervals[rank, baselineRandom]
    ELSE binomialConfidenceInterval(rank, baselineRandom)

\* Line 527, per rank.
Intervals(sorted, baselineRandom) ==
  [i \in 1..Len(sorted) |-> IntervalAt(sorted[i].rank, baselineRandom)]

\* Lines 529-533: the five lists of the curve.
CurveWith(sorted, baselineRandom, intervals) ==
  [null |-> FALSE,
   x |-> [i \in 1..Len(sorted) |-> sorted[i].rank],
   y |-> [i \in 1..Len(sorted) |->
           Ratio(CumulativeSuccesses(sorted, i), sorted[i].rank)],
   random |-> [i \in 1..Len(sorted) |-> baselineRandom],
   ciLower |-> [i \in 1..Len(sorted) |-> intervals[i][1]],
   ciUpper |-> [i \in 1..Len(sorted) |-> intervals[i][2]]]

\* Lines 512-536
CurveOfBaseline(sorted, baselineRandom) ==
  CurveWith(sorted, baselineRandom, Intervals(sorted, baselineRandom))

CurveOf(sorted) == CurveOfBaseline(sorted, BaselineRandom(sorted))

CurveOfGrouped(grouped) ==
  IF grouped = <<>> THEN NullCurve
  ELSE CurveOf(SortedByRank({grouped[i] : i \in 1..Len(grouped)}))

\* processPlotData, lines 483-537
processPlotData(rows) ==
  IF rows = <<>> THEN NullCurve
  ELSE CurveOfGrouped(Grouped(rows, Len(rows)))

\* Every call of line 527 returns: no bin of rank Infinity next to a
\* baseline > 0 (see InvReturns).
IntervalsReturn(grouped) ==
  \A i \in 1..Len(grouped) :
    IntervalReturns(grouped[i].rank,
                    BaselineRandom(SortedByRank({grouped[j] :
                                                 j \in 1..Len(grouped)})))

\* processPlotData(rows) returns.
PlotReturns(rows) == IntervalsReturn(Grouped(rows, Len(rows)))

\* One entry per call: <<>> before the call, then <<what it returned>>.
NotProcessed == [accepted |-> <<>>, unfiltered |-> <<>>]

\* Lines 692-693: processPlotData(parseReplicateCsv(csv))
ProcessAccepted ==
  /\ plot.accepted = <<>>
  /\ PlotReturns(parseReplicateCsv(csvRows))
  /\ plot' = [plot EXCEPT
               !.accepted = <<processPlotData(parseReplicateCsv(csvRows))>>]
  /\ UNCHANGED csvRows
  /\ UNCHANGED <<serverVars, binomialVars, clientVars, pearsonVars, matrixVars, coerceVars>>

\* processPlotData on rows that did not pass parseReplicateCsv.
ProcessUnfiltered ==
  /\ plot.unfiltered = <<>>
  /\ PlotReturns(csvRows)
  /\ plot' = [plot EXCEPT !.unfiltered = <<processPlotData(csvRows)>>]
  /\ UNCHANGED csvRows
  /\ UNCHANGED <<serverVars, binomialVars, clientVars, pearsonVars, matrixVars, coerceVars>>

PlotInit ==
  /\ csvRows \in UNION {[1..n -> RawReplicateRows] : n \in 0..MaxRows}
  /\ plot = NotProcessed

PlotIdle ==
  /\ csvRows = <<>>
  /\ plot = NotProcessed

PlotNext ==
  \/ ProcessAccepted
  \/ ProcessUnfiltered

(***************************************************************************)
(* Client: useRankResponseRegulator, lib/utils.ts:175-270, and the         *)
(* correlation fetch of the binding tab, binding-tab.tsx:138-174.  The     *)
(* page shows one tab at a time (app/page.tsx:66-84), so the binding tab   *)
(* and the component that calls the hook are never mounted together.       *)
(***************************************************************************)
\* Lines 197-201: the initial state of the hook.
InitialHookState == [data |-> "null", isLoading |-> FALSE, error |-> "null"]

NoClientEntry == [payload |-> "null", timestamp |-> 0]

HookIdle ==
  /\ regulatorId = "none"
  /\ mounted = FALSE
  /\ hookState = InitialHookState
  /\ clientCache = [id \in RegulatorIds |-> NoClientEntry]
  /\ clientInFlight = [id \in RegulatorIds |-> {}]
  /\ refreshCalls = [id \in RegulatorIds |-> [live |-> 0, gone |-> 0]]
  /\ settled = {}

\* Everything but the client.
serverAndStatVars ==
  <<serverVars, pearsonVars, matrixVars, coerceVars, plotVars, binomialVars>>

\* The payload fetchRegulatorData(id) resolves with is named by its id.
SuccessState(id) == [data |-> id, isLoading |-> FALSE, error |-> "null"]

\* Lines 226 and 252: setState((prev) => ({ ...prev, isLoading: true, error: null }))
LoadingState(prev) == [prev EXCEPT !.isLoading = TRUE, !.error = "null"]

\* Line 237: the state after the effect's load has failed.
FailureState == [data |-> "null", isLoading |-> FALSE, error |-> "message"]

\* Lines 259-263: the state after refresh has failed.
RefreshFailureState(prev) == [prev EXCEPT !.isLoading = FALSE, !.error = "message"]

\* `cached && now - cached.timestamp < CACHE_TTL_MS`, line 213 (the client's
\* CACHE_TTL_MS, line 175, is the server's value).
ClientCacheFresh(cached, t) ==
  cached.payload # "null" /\ t - cached.timestamp < CACHE_TTL_MS

\* The closure of one run of the effect that reached line 228: its variable
\* `cancelled`.  Closures that agree on it act alike and are kept once.
NewHandlers == [cancelled |-> FALSE]

\* The cleanup of lines 244-246, `cancelled = true`, in the closure that has
\* not been cleaned up yet (the last effect's; an effect that returned at
\* lines 204-207 or 213-216 has no cleanup).
CleanedUp(promises) ==
  [id \in RegulatorIds |->
     {[h EXCEPT !.cancelled = TRUE] : h \in promises[id]}]

\* The effect of lines 203-247 for regulator id, on the state base and with
\* the in-flight promises as the cleanup of the previous effect left them.
RunEffect(id, base, promises) ==
  IF id = "none"
    THEN \* lines 204-207
         /\ hookState' = InitialHookState
         /\ clientInFlight' = promises
  ELSE IF ClientCacheFresh(clientCache[id], now)
    THEN \* lines 213-216
         /\ hookState' = SuccessState(clientCache[id].payload)
         /\ clientInFlight' = promises
  ELSE \* lines 218-243, up to the settlement of the promise: the entry of
       \* inFlight if there is one, else a new promise
       /\ clientInFlight' =
            [promises EXCEPT ![id] = promises[id] \cup {NewHandlers}]
       /\ hookState' = LoadingState(base)

\* The component mounts with regulator id: a new instance of the hook, whose
\* state is the initial one when its effect runs.
Mount(id) ==
  /\ ~mounted
  /\ ~tabMounted
  /\ tabFetches = <<>>
  /\ mounted' = TRUE
  /\ regulatorId' = id
  /\ RunEffect(id, InitialHookState, clientInFlight)
  /\ UNCHANGED <<clientCache, refreshCalls, settled>>
  /\ UNCHANGED <<serverAndStatVars, tabVars>>

\* The component is rendered with another regulatorId: the cleanup of the
\* previous effect, then the effect.
ChangeRegulator(id) ==
  /\ mounted
  /\ id # regulatorId
  /\ regulatorId' = id
  /\ RunEffect(id, hookState, CleanedUp(clientInFlight))
  /\ UNCHANGED <<mounted, clientCache, refreshCalls, settled>>
  /\ UNCHANGED <<serverAndStatVars, tabVars>>

\* The component unmounts: the cleanup of its last effect; its state is gone.
Unmount ==
  /\ mounted
  /\ mounted' = FALSE
  /\ regulatorId' = "none"
  /\ hookState' = InitialHookState
  /\ clientInFlight' = CleanedUp(clientInFlight)
  /\ refreshCalls' =
       [id \in RegulatorIds |->
          [live |-> 0,
           gone |-> refreshCalls[id].gone + refreshCalls[id].live]]
  /\ UNCHANGED <<clientCache, settled>>
  /\ UNCHANGED <<serverAndStatVars, tabVars>>

\* Faulty variant of HandlerSetsState, which the properties must tell apart:
\* the handlers without their test of `cancelled`.
HandlerSetsStateAlways(handlers) == TRUE

\* `if (!cancelled)`, lines 230 and 236.  The cleanup has run in every
\* closure of an instance that is gone.
HandlerSetsState(handlers) == ~handlers.cancelled

\* Some effect that holds the promise sets the state when it settles.
SomeHandlerSetsState(closures) ==
  \E h \in closures : HandlerSetsState(h)

\* All but the element at position i.
Without(s, i) == SubSeq(s, 1, i - 1) \o SubSeq(s, i + 1, Len(s))

\* The requests of the hook have all settled.  The two tabs share no state,
\* and a tab mounts in the model once the requests of the other have
\* settled: the interleavings left out differ from the ones kept in the
\* order of steps that do not affect each other.
HookSettled ==
  /\ \A id \in RegulatorIds :
       /\ clientInFlight[id] = {}
       /\ refreshCalls[id] = [live |-> 0, gone |-> 0]

\* The refresh calls that are pending.
PendingRefreshes ==
  LET id1 == CHOOSE id \in RegulatorIds : TRUE
      id2 == CHOOSE id \in RegulatorIds : id # id1
  IN refreshCalls[id1].live + refreshCalls[id1].gone
       + refreshCalls[id2].live + refreshCalls[id2].gone

\* The promise of lines 218-223 for regulator id settles.  In one run of the
\* microtask queue: the then callback of lines 220-223 on success, then for
\* every effect that holds the promise its handlers of lines 228-242.
LoadSettles(id, ok) ==
  /\ clientInFlight[id] # {}
  /\ clientCache' =
       IF ok THEN [clientCache EXCEPT ![id] =
                     [payload |-> id, timestamp |-> now]]
       ELSE clientCache
  /\ clientInFlight' = [clientInFlight EXCEPT ![id] = {}]
  /\ hookState' =
       IF ~SomeHandlerSetsState(clientInFlight[id]) THEN hookState
       ELSE IF ok THEN SuccessState(id)
       ELSE FailureState
  /\ settled' = clientInFlight[id]
  /\ UNCHANGED <<regulatorId, mounted, refreshCalls>>
  /\ UNCHANGED <<serverAndStatVars, tabVars>>

\* refresh(), lines 250-252, up to the await.
Refresh ==
  /\ mounted
  /\ regulatorId # "none"
  /\ PendingRefreshes < MaxPending
  /\ hookState' = LoadingState(hookState)
  /\ refreshCalls' =
       [refreshCalls EXCEPT ![regulatorId].live = @ + 1]
  /\ UNCHANGED <<regulatorId, mounted, clientCache, clientInFlight, settled>>
  /\ UNCHANGED <<serverAndStatVars, tabVars>>

\* fetchRegulatorData of a refresh call for regulator id settles: lines
\* 254-256 on success, lines 257-264 on failure.  setState of a call whose
\* instance is gone changes nothing.
RefreshSettles(id, gone, ok) ==
  /\ IF gone THEN refreshCalls[id].gone > 0 ELSE refreshCalls[id].live > 0
  /\ refreshCalls' =
       IF gone THEN [refreshCalls EXCEPT ![id].gone = @ - 1]
       ELSE [refreshCalls EXCEPT ![id].live = @ - 1]
  /\ clientCache' =
       IF ok THEN [clientCache EXCEPT ![id] =
                     [payload |-> id, timestamp |-> now]]
       ELSE clientCache
  /\ hookState' =
       IF gone THEN hookState
       ELSE IF ok THEN SuccessState(id)
       ELSE RefreshFailureState(hookState)
  /\ UNCHANGED <<regulatorId, mounted, clientInFlight, settled>>
  /\ UNCHANGED <<serverAndStatVars, tabVars>>

HookNext ==
  \/ \E id \in RegulatorIds \cup {"none"} : Mount(id)
  \/ \E id \in RegulatorIds \cup {"none"} : ChangeRegulator(id)
  \/ Unmount
  \/ \E id \in RegulatorIds, ok \in BOOLEAN : LoadSettles(id, ok)
  \/ Refresh
  \/ \E id \in RegulatorIds, gone \in BOOLEAN, ok \in BOOLEAN :
        RefreshSettles(id, gone, ok)
  \/ Tick

NoTabCall == [signal |-> FALSE, aborted |-> FALSE, gone |-> FALSE,
              phase |-> "none"]

\* A call that has ended.
Ended(call) == [call EXCEPT !.phase = "ended"]

\* binding-tab.tsx:27-29: the initial state of the tab.
TabIdle ==
  /\ tabMounted = FALSE
  /\ correlationData = "null"
  /\ correlationError = "null"
  /\ isCorrelationLoading = TRUE
  /\ tabFetches = <<>>
  /\ tabSettled = NoTabCall

ClientIdle == HookIdle /\ TabIdle

\* `signal?.aborted`, binding-tab.tsx:152, 156 and 161: a call without a
\* signal is never aborted.
SignalAborted(call) == call.signal /\ call.aborted

\* The setters of a call change the state unless its instance is gone.
TabSets(call) == ~call.gone

\* binding-tab.tsx:140-143: fetchCorrelationMatrix up to its first await.
StartTabFetch(signal, calls) ==
  /\ Len(calls) < MaxPending
  /\ isCorrelationLoading' = TRUE
  /\ correlationError' = "null"
  /\ tabFetches' = Append(calls, [signal |-> signal, aborted |-> FALSE,
                                  gone |-> FALSE, phase |-> "fetch"])

\* The binding tab mounts, and its effect (binding-tab.tsx:168-174) calls
\* fetchCorrelationMatrix with the signal of a new AbortController.
TabMount ==
  /\ ~tabMounted
  /\ ~mounted
  /\ HookSettled
  /\ tabMounted' = TRUE
  /\ StartTabFetch(TRUE, tabFetches)
  /\ UNCHANGED <<correlationData, tabSettled>>
  /\ UNCHANGED <<serverAndStatVars, hookVars>>

\* handleCorrelationRetry, binding-tab.tsx:176-178: the button is shown with
\* the error (lines 444-453), and the call has no signal.
TabRetry ==
  /\ tabMounted
  /\ ~isCorrelationLoading
  /\ correlationError # "null"
  /\ StartTabFetch(FALSE, tabFetches)
  /\ UNCHANGED <<tabMounted, correlationData, tabSettled>>
  /\ UNCHANGED <<serverAndStatVars, hookVars>>

\* The binding tab unmounts: the cleanup of binding-tab.tsx:171-173 aborts
\* the effect's controller; the state of the instance is gone.
TabUnmount ==
  /\ tabMounted
  /\ tabMounted' = FALSE
  /\ correlationData' = "null"
  /\ correlationError' = "null"
  /\ isCorrelationLoading' = TRUE
  /\ tabFetches' =
       [c \in 1..Len(tabFetches) |->
          [tabFetches[c] EXCEPT !.gone = TRUE, !.aborted = tabFetches[c].signal]]
  /\ UNCHANGED tabSettled
  /\ UNCHANGED <<serverAndStatVars, hookVars>>

\* binding-tab.tsx:143-150: fetch resolves (an aborted fetch rejects), and
\* the call awaits the body: json() of an ok response, text() otherwise.
TabFetchResolves(call, ok) ==
  /\ call \in 1..Len(tabFetches)
  /\ tabFetches[call].phase = "fetch"
  /\ ~SignalAborted(tabFetches[call])
  /\ tabFetches' =
       [tabFetches EXCEPT ![call].phase = IF ok THEN "json" ELSE "text"]
  /\ UNCHANGED <<tabMounted, correlationData, correlationError,
                 isCorrelationLoading, tabSettled>>
  /\ UNCHANGED <<serverAndStatVars, hookVars>>

\* binding-tab.tsx:151-154 and 160-163: the call ends with the payload.
TabCallSucceeds(call) ==
  LET sets == ~SignalAborted(tabFetches[call]) /\ TabSets(tabFetches[call])
  IN /\ correlationData' = IF sets THEN "payload" ELSE correlationData
     /\ isCorrelationLoading' = IF sets THEN FALSE ELSE isCorrelationLoading
     /\ UNCHANGED correlationError

\* binding-tab.tsx:155-163: the call ends in its catch block.
TabCallFails(call) ==
  LET sets == ~SignalAborted(tabFetches[call]) /\ TabSets(tabFetches[call])
  IN /\ correlationError' = IF sets THEN "message" ELSE correlationError
     /\ correlationData' = IF sets THEN "null" ELSE correlationData
     /\ isCorrelationLoading' = IF sets THEN FALSE ELSE isCorrelationLoading

\* The last await of a call settles: fetch rejects, json() settles, or text()
\* settles (whose result is thrown at binding-tab.tsx:146-148).
TabCallSettles(call, ok) ==
  /\ call \in 1..Len(tabFetches)
  /\ tabFetches[call].phase = "fetch" => ~ok
  /\ IF tabFetches[call].phase = "json" /\ ok
       THEN TabCallSucceeds(call)
       ELSE TabCallFails(call)
  /\ tabFetches' = Without(tabFetches, call)
  /\ tabSettled' = Ended(tabFetches[call])
  /\ UNCHANGED tabMounted
  /\ UNCHANGED <<serverAndStatVars, hookVars>>

TabNext ==
  \/ TabMount
  \/ TabRetry
  \/ TabUnmount
  \/ \E call \in 1..MaxPending, ok \in BOOLEAN : TabFetchResolves(call, ok)
  \/ \E call \in 1..MaxPending, ok \in BOOLEAN : TabCallSettles(call, ok)

ClientNext == HookNext \/ TabNext

\* C29: whenever the hook of a mounted component reports isLoading = false,
\* error = null and data that is not null, data is the payload that was
\* fetched for the current regulatorId.
C29_DataOfCurrentRegulator ==
  (/\ mounted
   /\ ~hookState.isLoading
   /\ hookState.error = "null"
   /\ hookState.data # "null")
    => hookState.data = regulatorId

\* C30: when the promise of a load settles, with success or failure, and the
\* cleanup has run in every effect that holds it, data, isLoading and error
\* of the hook stay as they are; and when a call of fetchCorrelationMatrix
\* whose signal was aborted ends, correlationData, correlationError and
\* isCorrelationLoading of the binding tab stay as they are.
C30_CancelledLoadChangesNothing ==
  [][/\ \A id \in RegulatorIds, ok \in BOOLEAN :
          (/\ LoadSettles(id, ok)
           /\ \A h \in clientInFlight[id] : h.cancelled)
            => UNCHANGED hookState
     /\ \A call \in 1..Len(tabFetches), ok \in BOOLEAN :
          (/\ TabCallSettles(call, ok)
           /\ SignalAborted(tabFetches[call]))
            => UNCHANGED <<correlationData, correlationError,
                           isCorrelationLoading>>]_vars

\* C30 witness: the hook is mounted, the promise that settled last was held
\* only by effects that had been cleaned up, and the call of the binding tab
\* that ended last had been aborted.
C30_Witness ==
  /\ mounted
  /\ settled # {}
  /\ \A h \in settled : h.cancelled
  /\ tabSettled.signal
  /\ tabSettled.aborted
  /\ tabSettled.phase = "ended"

(***************************************************************************)
(* Specifications: each runs one component; the state of the others stays  *)
(* as the module's load leaves it.                                         *)
(***************************************************************************)
LoaderIdle ==
  /\ apiUrl = FALSE
  /\ cachedPromise = 0
  /\ loads = <<>>
  /\ callerPromise = [c \in Callers |-> 0]
  /\ callerEarly = [c \in Callers |-> FALSE]

RegulatorIdle ==
  /\ TFBP_API_TOKEN = TRUE
  /\ regulatorCache = [id \in RegulatorIds |-> NoEntry]
  /\ inFlightRequests = [id \in RegulatorIds |-> 0]
  /\ computations = <<>>
  /\ requests = [r \in Requests |-> NewRequest]

MetadataIdle ==
  /\ cachedPayload = 0
  /\ cacheTimestamp = 0
  /\ inFlightRequest = 0
  /\ fetches = <<>>
  /\ metaRequests = [r \in Requests |-> NewMetaRequest]

PoolNext ==
  \/ StartPool
  \/ \E i \in 1..MaxReplicates : FetchRejects(i)
  \/ \E i \in 1..MaxReplicates, ok \in BOOLEAN : FetchResolves(i, ok)
  \/ \E i \in 1..MaxReplicates : TextResolves(i)
  \/ \E i \in 1..MaxReplicates : TextRejects(i)
  \/ \E i \in 1..MaxReplicates, how \in {"archive_error", "no_curve", "curve"} :
       BodySettles(i, how)

StatIdle ==
  /\ PearsonIdle /\ MatrixIdle /\ CoerceIdle /\ PlotIdle
  /\ BinomialIdle /\ ClientIdle

ServerIdle ==
  now = 0 /\ LoaderIdle /\ RegulatorIdle /\ MetadataIdle /\ PoolIdle

InitPearson ==
  /\ PearsonInit /\ ServerIdle /\ MatrixIdle /\ CoerceIdle /\ PlotIdle
  /\ BinomialIdle /\ ClientIdle

SpecPearson ==
  /\ InitPearson
  /\ [][PearsonNext]_vars

InitLoader ==
  LoaderInit /\ now = 0 /\ RegulatorIdle /\ MetadataIdle /\ PoolIdle /\ StatIdle

InitCoerce ==
  /\ CoerceInit /\ ServerIdle /\ PearsonIdle /\ MatrixIdle /\ PlotIdle
  /\ BinomialIdle /\ ClientIdle

SpecCoerce ==
  /\ InitCoerce
  /\ [][CoerceNext]_vars

InitMatrix ==
  /\ MatrixInit /\ ServerIdle /\ PearsonIdle /\ CoerceIdle /\ PlotIdle
  /\ BinomialIdle /\ ClientIdle

SpecMatrix ==
  /\ InitMatrix
  /\ [][MatrixNext]_vars

InitPlot ==
  /\ PlotInit /\ ServerIdle /\ PearsonIdle /\ MatrixIdle /\ CoerceIdle
  /\ BinomialIdle /\ ClientIdle

SpecPlot ==
  /\ InitPlot
  /\ [][PlotNext]_vars

InitBinomial ==
  /\ BinomialInit /\ ServerIdle /\ PearsonIdle /\ MatrixIdle /\ CoerceIdle
  /\ PlotIdle /\ ClientIdle

SpecBinomial ==
  /\ InitBinomial
  /\ [][BinomialNext]_vars

InitHook ==
  /\ HookIdle /\ TabIdle /\ ServerIdle /\ PearsonIdle /\ MatrixIdle
  /\ CoerceIdle /\ PlotIdle /\ BinomialIdle

SpecHook ==
  /\ InitHook
  /\ [][HookNext]_vars

SpecClient ==
  /\ InitHook
  /\ [][ClientNext]_vars

SpecLoader ==
  /\ InitLoader
  /\ [][LoaderNext]_vars

InitRegulator ==
  RegulatorInit /\ LoaderIdle /\ MetadataIdle /\ PoolIdle /\ StatIdle

SpecRegulator ==
  /\ InitRegulator
  /\ [][RegulatorNext]_vars

\* Every upstream call settles: a pending loadRegulatorData does not stay
\* pending forever.
SettleSome == \E k \in 1..MaxRequests, ok \in BOOLEAN : Settle(k, ok)

SpecRegulatorFair ==
  /\ InitRegulator
  /\ [][RegulatorNext]_vars
  /\ WF_vars(SettleSome)

InitMetadata ==
  MetadataInit /\ LoaderIdle /\ RegulatorIdle /\ PoolIdle /\ StatIdle

SpecMetadata ==
  /\ InitMetadata
  /\ [][MetadataNext]_vars

InitPool ==
  PoolInit /\ now = 0 /\ LoaderIdle /\ RegulatorIdle /\ MetadataIdle /\ StatIdle

SpecPool ==
  /\ InitPool
  /\ [][PoolNext]_vars

(***************************************************************************)
(* Properties of the correlation loader                                    *)
(***************************************************************************)
EarlyLoads == {l \in 1..Len(loads) : loads[l].early}
EarlyCallers == {c \in Callers : callerPromise[c] # 0 /\ callerEarly[c]}

\* C1: the calls that arrive before the first load has settled start exactly
\* one load, which tries the local file once and the API at most once, and
\* they all await that load's promise, hence receive the same payload object
\* (or the same error).
C1_SingleLoadSharedPayload ==
  /\ EarlyCallers # {} => Cardinality(EarlyLoads) = 1
  /\ \A l \in EarlyLoads : loads[l].localTried = 1 /\ loads[l].apiTried <= 1
  /\ \A c, d \in EarlyCallers :
       /\ callerPromise[c] = callerPromise[d]
       /\ loads[callerPromise[c]].value = loads[callerPromise[d]].value

C1_Witness ==
  \E c, d \in EarlyCallers :
    /\ c # d
    /\ loads[callerPromise[c]].phase = "fulfilled"
    /\ loads[callerPromise[d]].value.kind = "payload"

\* C10: the sources are tried in order, local file then API; a load whose
\* local source failed and whose API answered a valid payload resolves with
\* the API payload; a load all of whose sources failed rejects with the error
\* of the source tried last.
C10_LastSourceErrorSurfaced ==
  \A l \in 1..Len(loads) :
    /\ loads[l].apiTried > 0 => loads[l].localLoadError # "none"
    /\ loads[l].phase = "fulfilled" /\ loads[l].localLoadError # "none"
         => loads[l].value = Payload("api", l)
    /\ loads[l].phase = "rejected"
         => loads[l].value = Failure(loads[l].lastError)

\* The remote answers the contract rejects: a status outside 2xx, labels or
\* matrix that is no array, min or max that is no number.
MalformedResponses ==
  {resp \in ApiResponses :
     /\ ~resp.network
     /\ ~resp.ok \/ ~resp.labels \/ ~resp.matrix \/ ~resp.min \/ ~resp.max}

\* C11: a remote response that is non-2xx, or whose labels or matrix is not
\* an array, or whose min or max is not a number, never becomes the value of
\* the load: the load ends as it would had the API source produced nothing,
\* rejected with what lines 281-289 throw.
C11_MalformedResponseDiscarded ==
  [][\A l \in 1..MaxCallers, resp \in MalformedResponses :
       ApiSettles(l, resp)
         => /\ loads'[l].phase = "rejected"
            /\ loads'[l].value.kind = "error"
            /\ loads'[l].value = RejectionOf(loads[l].localLoadError, "none")]_vars

C11_Witness ==
  \E l \in 1..Len(loads) :
    /\ loads[l].phase = "rejected"
    /\ loads[l].lastError = "api_format"
    /\ \E c \in Callers : callerPromise[c] = l

\* C12: once a load has ended in an error, a later call of the loader (the
\* manual retry of the route) does not reuse the cached promise: it starts a
\* new load attempt against the sources.
C12_RetryStartsNewLoad ==
  \A c \in Callers :
    (/\ callerPromise[c] # 0
     /\ ~callerEarly[c]
     /\ loads[1].phase = "rejected")
      => callerPromise[c] # 1

(***************************************************************************)
(* Properties of computePearsonCorrelation                                 *)
(***************************************************************************)
\* The index positions where both values are present.
JointPositions(xs, ys) ==
  {i \in 1..Len(xs) : ~xs[i].missing /\ ~ys[i].missing}

\* The values of xs at the positions of J are all equal.
ZeroVariance(xs, J) == \A i, j \in J : xs[i] = xs[j]

\* xs without the positions where xs or ys is missing.
RECURSIVE JointValues(_, _, _)
JointValues(xs, ys, n) ==
  IF n = 0 THEN <<>>
  ELSE IF xs[n].missing \/ ys[n].missing THEN JointValues(xs, ys, n - 1)
  ELSE Append(JointValues(xs, ys, n - 1), xs[n])

\* C16: computePearsonCorrelation returns exactly 0 whenever fewer than 2
\* positions have both values present or either sequence is constant on the
\* jointly-present positions; the positions where a value is missing do not
\* contribute: the result is that of the sequences without them.
C16_ZeroWithoutVariance ==
  LET J == JointPositions(xValues, yValues) IN
  correlation.xy # Missing =>
    /\ (\/ Cardinality(J) < 2
        \/ ZeroVariance(xValues, J)
        \/ ZeroVariance(yValues, J)) => correlation.xy = Num(0)
    /\ correlation.xy =
         computePearsonCorrelation(JointValues(xValues, yValues, Len(xValues)),
                                   JointValues(yValues, xValues, Len(xValues)))

\* C17: with at least 2 jointly-present pairs and neither sequence constant
\* on them, the correlation of (x, y) equals that of (y, x); the correlation
\* of a non-constant x with itself is 1.
C17_SymmetricAndSelfOne ==
  LET J == JointPositions(xValues, yValues)
      K == JointPositions(xValues, xValues)
  IN /\ (/\ correlation.xy # Missing
          /\ Cardinality(J) >= 2
          /\ ~ZeroVariance(xValues, J)
          /\ ~ZeroVariance(yValues, J)) => correlation.xy = correlation.yx
     /\ (/\ correlation.xx # Missing
          /\ ~ZeroVariance(xValues, K)) => correlation.xx = Num(1)

(***************************************************************************)
(* Properties of the numeric coercion                                      *)
(***************************************************************************)
\* The inputs that denote no finite number: null-like tokens, whitespace-only
\* strings, NaN and the infinities, as numbers or as strings.
DenotesNoFiniteNumber(value) ==
  \/ value.type \in {"null", "undefined"}
  \/ value.type = "number" /\ ~IsFinite(value.number)
  \/ /\ value.type = "string"
     /\ \/ StringOf(value).trimmed = ""
        \/ StringOf(value).lowered \in NULL_LIKE_VALUES
        \/ ~IsFinite(StringOf(value).number)

\* C18: each coercion routine returns, for every raw input, a finite number
\* or missing; null-like tokens, whitespace-only strings and inputs denoting
\* NaN or an infinity yield missing.
C18_FiniteOrMissing ==
  \A routine \in {"numericValue", "regulator", "metadata"} :
    parsed[routine] # <<>> =>
      /\ parsed[routine][1].missing \/ IsFinite(parsed[routine][1])
      /\ DenotesNoFiniteNumber(raw) => parsed[routine][1].missing

(***************************************************************************)
(* Properties of the correlation payloads                                  *)
(***************************************************************************)
IsSquare(payload) ==
  /\ Len(payload.matrix) = Len(payload.labels)
  /\ \A i \in 1..Len(payload.matrix) :
       Len(payload.matrix[i]) = Len(payload.labels)

LessOrEqual(a, b) == ~Less(b, a)

\* The cells off the diagonal of a square matrix.
OffDiagonal(payload) ==
  {<<i, j>> \in (1..Len(payload.labels)) \X (1..Len(payload.labels)) : i # j}

\* C13: every payload a source produced, local file or remote API, has a
\* square matrix of size labels.length with 1 on the diagonal, symmetric,
\* every off-diagonal value within [-1, 1].
C13_WellFormedMatrix ==
  built.source # "none" =>
    /\ IsSquare(built)
    /\ \A i \in 1..Len(built.labels) : built.matrix[i][i] = Num(1)
    /\ \A p \in OffDiagonal(built) :
         /\ built.matrix[p[1]][p[2]] = built.matrix[p[2]][p[1]]
         /\ LessOrEqual(Num(-1), built.matrix[p[1]][p[2]])
         /\ LessOrEqual(built.matrix[p[1]][p[2]], Num(1))

\* C14: for the matrix computeCorrelationMatrix builds from a file, min <=
\* every off-diagonal cell <= max, min and max are each the value of some
\* off-diagonal cell, and with fewer than 2 columns min = 0 and max = 1.
C14_ExtremesBoundCells ==
  built.source = "file" =>
    /\ \A p \in OffDiagonal(built) :
         /\ LessOrEqual(built.min, built.matrix[p[1]][p[2]])
         /\ LessOrEqual(built.matrix[p[1]][p[2]], built.max)
    /\ Len(built.labels) >= 2 =>
         /\ \E p \in OffDiagonal(built) : built.matrix[p[1]][p[2]] = built.min
         /\ \E p \in OffDiagonal(built) : built.matrix[p[1]][p[2]] = built.max
    /\ Len(built.labels) < 2 => built.min = Num(0) /\ built.max = Num(1)

C14_Witness ==
  /\ built.source = "file"
  /\ Len(built.labels) = 3
  /\ Less(built.min, built.max)
  /\ Less(built.max, Num(1))

\* C15: the payload of a table does not depend on the order of its columns:
\* loading the table with its columns permuted gives the same labels (sorted),
\* the same cell for every pair of labels, the same min and max.
C15_ColumnOrderIrrelevant ==
  rebuilt.source # "none" => rebuilt = built

(***************************************************************************)
(* Properties of processPlotData                                           *)
(***************************************************************************)
\* The curves processPlotData has returned.
Curves ==
  {plot[call][1] : call \in {c \in {"accepted", "unfiltered"} : plot[c] # <<>>}}

\* C19: in every non-null curve of processPlotData, whatever the input rows
\* (several rows may share a rank bin), 0 <= y[i] <= 1 for every i.
C19_RatioWithinUnitInterval ==
  \A curve \in Curves :
    ~curve.null =>
      \A i \in 1..Len(curve.y) :
        /\ ~NumberLess(curve.y[i], Num(0))
        /\ ~NumberLess(Num(1), curve.y[i])

\* C20: in every non-null curve of processPlotData on the rows
\* parseReplicateCsv accepted, x is strictly increasing, every x[i] lies in
\* (0, 150], and x holds every integer between its first and last element.
C20_RanksIncreasingWithoutGaps ==
  plot.accepted # <<>> /\ ~plot.accepted[1].null =>
    LET x == plot.accepted[1].x IN
    /\ \A i \in 1..(Len(x) - 1) : NumberLess(x[i], x[i + 1])
    /\ \A i \in 1..Len(x) :
         NumberLess(Num(0), x[i]) /\ ~NumberLess(Num(nBins), x[i])
    /\ \A k \in 1..nBins :
         ~NumberLess(Num(k), x[1]) /\ ~NumberLess(x[Len(x)], Num(k))
           => \E i \in 1..Len(x) : x[i] = Num(k)

\* The rows each call of processPlotData was made with.
InputRows(call) ==
  IF call = "accepted" THEN parseReplicateCsv(csvRows) ELSE csvRows

\* The calls of processPlotData that have returned a curve.
CurveCalls ==
  {call \in {"accepted", "unfiltered"} :
     plot[call] # <<>> /\ ~plot[call][1].null}

\* The rank bin of a row.
RankOf(row) == parseNumber(RawCell(row.rank_bin))

\* The responsive rows of rows whose rank bin is <= bound.
ResponsiveUpTo(rows, bound) ==
  {j \in 1..Len(rows) :
     /\ parseBoolean(rows[j].responsive) = "true"
     /\ ~RankOf(rows[j]).missing
     /\ ~NumberLess(bound, RankOf(rows[j]))}

\* Those of them that processPlotData puts in a bin: the rank bin is > 0.
BinnedUpTo(rows, bound) ==
  {j \in ResponsiveUpTo(rows, bound) : NumberLess(Num(0), RankOf(rows[j]))}

\* Scenario 3: bins 1..5, one row each, successes at bins 1, 3 and 5.
Scenario3Rows ==
  << [rank_bin |-> "1",   responsive |-> "1", random |-> "0.5"],
     [rank_bin |-> "2",   responsive |-> "0", random |-> "0.5"],
     [rank_bin |-> " 3 ", responsive |-> "1", random |-> "0.5"],
     [rank_bin |-> "4",   responsive |-> "0", random |-> "0.5"],
     [rank_bin |-> "5",   responsive |-> "1", random |-> "0.5"] >>

\* The curve of the scenario.
Scenario3Curve == processPlotData(Scenario3Rows)

\* The running counts of the scenario, over their ranks.
Scenario3Ratios ==
  << Divided(Num(1), Num(1)), Divided(Num(1), Num(2)), Divided(Num(2), Num(3)),
     Divided(Num(2), Num(4)), Divided(Num(3), Num(5)) >>

RandomOf(row) == parseNumber(RawCell(row.random))

\* The rows of the rank bin that carry a finite random value.
FiniteRandomRows(rows, rank) ==
  {j \in 1..Len(rows) : RankOf(rows[j]) = rank /\ IsFinite(RandomOf(rows[j]))}

\* The greatest element of a non-empty set of integers.
Greatest(S) == CHOOSE k \in S : \A j \in S : j <= k

\* The latest finite random value of the rank bin, 0 if it has none.
LatestFiniteRandom(rows, rank) ==
  IF FiniteRandomRows(rows, rank) = {} THEN Num(0)
  ELSE RandomOf(rows[Greatest(FiniteRandomRows(rows, rank))])

\* C22: in every curve of processPlotData x, y, random, ciLower and ciUpper
\* have the same length, and every entry of random is the latest finite
\* random value of the rows of the smallest rank bin of the curve (0 if
\* none of them has one), whatever the rows of the other bins carry.
C22_SingleBaseline ==
  \A call \in CurveCalls :
    LET curve == plot[call][1] IN
    /\ Len(curve.y) = Len(curve.x)
    /\ Len(curve.random) = Len(curve.x)
    /\ Len(curve.ciLower) = Len(curve.x)
    /\ Len(curve.ciUpper) = Len(curve.x)
    /\ \A i \in 1..Len(curve.random) :
         curve.random[i] = LatestFiniteRandom(InputRows(call), curve.x[1])

\* C23: in every curve of processPlotData ciLower[i] <= random[i] <=
\* ciUpper[i] for every i, whatever the baseline random value of the input;
\* binomialConfidenceInterval with zero or fewer trials returns [0, 0].
C23_BaselineWithinInterval ==
  /\ \A call \in CurveCalls :
       LET curve == plot[call][1] IN
       \A i \in 1..Len(curve.x) :
         /\ ~NumberLess(curve.random[i], curve.ciLower[i])
         /\ ~NumberLess(curve.ciUpper[i], curve.random[i])
  /\ \A trials \in {Num(0), Num(-5)}, probability \in CellBaselines :
       binomialConfidenceInterval(trials, probability) = <<Num(0), Num(0)>>

(***************************************************************************)
(* Properties of the binomial routines                                     *)
(***************************************************************************)
\* The k of 0..n whose cumulative probability reaches the target.
Reaching(target, n, p) ==
  {k \in 0..IntegerOf(n) : AtLeast(binomialCdf(k, n, p), target)}

Started(r) ==
  requests[r].comp # 0 /\ computations[requests[r].comp].starter = r
Joined(r) ==
  requests[r].comp # 0 /\ computations[requests[r].comp].starter # r
ServedFromFreshCache(r) ==
  /\ requests[r].comp = 0
  /\ ~requests[r].refresh
  /\ requests[r].hadCache
  /\ requests[r].age < CACHE_TTL_MS

\* C2: a request without the refresh flag never starts a computation for a
\* regulator id while another computation for that id is in flight.
C2_NoDuplicateWithoutRefresh ==
  \A k \in 1..Len(computations) :
    ~computations[k].bypassCache => ~computations[k].overlapAtStart

\* C7: no handler lets an exception out: every request that awaited a
\* computation that failed has returned an error response.
C7_EveryRequestReturns ==
  \A r \in Requests :
    /\ requests[r].state # "threw"
    /\ requests[r].comp # 0 /\ computations[requests[r].comp].state = "rejected"
         => requests[r].state = "returned" /\ requests[r].status = 502

LabelMatchesPath(r) ==
  /\ requests[r].label = "hit" <=> ServedFromFreshCache(r)
  /\ requests[r].label = "busy" <=> Joined(r)
  /\ requests[r].label \in {"miss", "warm"} <=> Started(r)
  /\ requests[r].label = "miss" => requests[r].hadCache
  /\ requests[r].label = "warm" => ~requests[r].hadCache

\* C8, as stated: every response is marked hit exactly when it was served
\* from a fresh cache entry without the refresh flag and without any
\* computation, busy exactly when its request awaited a computation started by
\* another request, miss or warm exactly when its request started the
\* computation (miss: a cache entry existed at arrival, warm: none did).
C8_LabelExact ==
  \A r \in Requests : requests[r].state = "returned" => LabelMatchesPath(r)

\* C8, amended: the same for every response that carries a payload (status
\* 200); an error response carries no cache-status label.
C8_LabelExactOnSuccess ==
  \A r \in Requests :
    requests[r].state = "returned" =>
      IF requests[r].status = 200
        THEN LabelMatchesPath(r)
        ELSE requests[r].label = "none"

C8_Witness ==
  /\ \E r \in Requests : requests[r].label = "hit"
  /\ \E r \in Requests : requests[r].label = "busy"
  /\ \E r \in Requests : requests[r].label \in {"miss", "warm"}

\* C9, as stated: every cache entry was written by the computation that was
\* registered for its id in the in-flight map at the time of the write.
C9_OnlyOwnerWrites ==
  \A id \in RegulatorIds : regulatorCache[id].byOwner

\* C9, amended: a cache entry is written by the registered computation, or
\* by one that ran while another computation for the same id was pending;
\* and an in-flight entry is only ever overwritten by a computation that a
\* refresh request started while one started by a refresh request was
\* registered.
C9_OwnerOrOverlappedWrites ==
  /\ \A id \in RegulatorIds :
       regulatorCache[id].present =>
         \/ regulatorCache[id].byOwner
         \/ computations[regulatorCache[id].payload].overlapped
  /\ \A k \in 1..Len(computations) :
       /\ computations[k].replaced # 0 =>
            /\ computations[k].bypassCache
            /\ computations[computations[k].replaced].bypassCache
       /\ computations[k].overlapped =>
            \E j \in 1..Len(computations) :
              /\ computations[j].id = computations[k].id
              /\ computations[j].replaced # 0

C9_Witness ==
  \E id \in RegulatorIds :
    regulatorCache[id].present /\ ~regulatorCache[id].byOwner

\* What a request with the refresh flag for regulator id does on arrival,
\* given the entry of the in-flight map it finds.
RefreshStartsOrJoins(r, id) ==
  LET existing == inFlightRequests[id]
      startsNew == Len(computations') = Len(computations) + 1
  IN /\ requests'[r].label # "hit"
     /\ startsNew <=> (existing = 0 \/ computations[existing].bypassCache)
     /\ startsNew => /\ inFlightRequests'[id] = Len(computations')
                     /\ computations'[Len(computations')].id = id
     /\ existing # 0 /\ ~computations[existing].bypassCache =>
          /\ requests'[r].state = "awaitExisting"
          /\ requests'[r].comp = existing
          /\ UNCHANGED <<inFlightRequests, computations>>

\* C27 as stated: a request with the refresh flag is never answered from
\* the TTL cache; it starts a new computation exactly when no computation
\* for its id is registered in flight or the registered one was started by
\* a refresh request, and joins a registered computation a request without
\* the flag started.
C27_RefreshStartsOrJoins ==
  [][ \A r \in Requests, id \in RegulatorIds :
        Arrive(r, id, TRUE) => RefreshStartsOrJoins(r, id)
    ]_vars

\* C27, amended: the same of a request that passes the checks of lines
\* 792-801 (the API token is configured); a request that joined is answered
\* 'busy' when the computation succeeds.
C27_ValidRefreshStartsOrJoins ==
  [][ /\ \A r \in Requests, id \in RegulatorIds :
           Arrive(r, id, TRUE) /\ TFBP_API_TOKEN => RefreshStartsOrJoins(r, id)
      /\ \A q \in Requests :
           /\ requests'[q].refresh => requests'[q].label # "hit"
           /\ requests[q].refresh /\ requests[q].state = "awaitExisting"
                /\ requests'[q].state = "returned" =>
                  requests'[q].status = 200 /\ requests'[q].label = "busy"
    ]_vars

\* C27, witness: with the token configured, a request with the refresh flag
\* joined the computation a request without the flag had started and was
\* answered 'busy'.
C27_Witness ==
  /\ TFBP_API_TOKEN
  /\ \E q \in Requests :
       /\ requests[q].refresh
       /\ requests[q].label = "busy"
       /\ ~computations[requests[q].comp].bypassCache

\* C28: provided every computation settles, every request of the regulator
\* route eventually returns and every entry of the in-flight map is
\* eventually removed, after a success and after a failure; a computation
\* that fails leaves the regulator cache as it is, and the cache only holds
\* payloads of computations that succeeded.
C28_RequestsReturnEntriesRemoved ==
  /\ \A q \in Requests :
       (requests[q].state # "new") ~> (requests[q].state = "returned")
  /\ \A id \in RegulatorIds :
       (inFlightRequests[id] # 0) ~> (inFlightRequests[id] = 0)
  /\ [][ \A k \in 1..Len(computations) :
           Settle(k, FALSE) => UNCHANGED regulatorCache ]_vars
  /\ [](\A id \in RegulatorIds :
          regulatorCache[id].present =>
            computations[regulatorCache[id].payload].state = "fulfilled")

(***************************************************************************)
(* Properties of the metadata route                                        *)
(***************************************************************************)
\* C3: two upstream metadata fetches are in flight at the same time only when
\* the later one was started by a request carrying the refresh flag.
C3_NoConcurrentFetchWithoutRefresh ==
  \A f \in 1..Len(fetches) : fetches[f].overlapAtStart => fetches[f].byRefresh

\* The cache holds a payload older than the TTL.
CacheStale == cachedPayload # 0 /\ now - cacheTimestamp >= CACHE_TTL_MS

\* The promises a request answered 'stale' left refreshing in the background.
BackgroundRefreshes ==
  {f \in 1..Len(fetches) :
     \E q \in Requests :
       metaRequests[q].label = "stale" /\ metaRequests[q].fetch = f}

\* C25: a request of the metadata route without the refresh flag that finds
\* a cached payload older than the TTL returns at once with that payload,
\* marked 'stale', and leaves a fetch in flight; when such a background
\* fetch fails, the cached payload and its timestamp stay as they are and
\* the rejection has a handler.
C25_StaleWhileRefreshing ==
  [][ /\ \A r \in Requests :
           MetaArrive(r, FALSE) /\ CacheStale =>
             /\ metaRequests'[r].state = "returned"
             /\ metaRequests'[r].status = 200
             /\ metaRequests'[r].label = "stale"
             /\ metaRequests'[r].payload = cachedPayload
             /\ inFlightRequest' # 0
             /\ fetches'[inFlightRequest'].state = "pending"
      /\ \A f \in BackgroundRefreshes :
           MetaSettle(f, FALSE) =>
             /\ UNCHANGED <<cachedPayload, cacheTimestamp>>
             /\ fetches[f].handled
    ]_vars

\* C25, witness: the background fetch of a request answered 'stale' has
\* failed, and the cache still holds the payload the request was given.
C25_Witness ==
  \E q \in Requests :
    /\ metaRequests[q].label = "stale"
    /\ metaRequests[q].fetch \in 1..Len(fetches)
    /\ fetches[metaRequests[q].fetch].state = "rejected"
    /\ fetches[metaRequests[q].fetch].starter = q
    /\ cachedPayload = metaRequests[q].payload

(***************************************************************************)
(* Properties of the replicate worker pool                                 *)
(***************************************************************************)
ResultIds == {results[j] : j \in 1..Len(results)}

\* The Map a run with the same outcomes fills when the replicates complete in
\* the order of their ids.
RECURSIVE PlotsUpTo(_)
PlotsUpTo(n) ==
  IF n = 0 THEN <<>>
  ELSE IF outcome[n] = "curve" THEN Append(PlotsUpTo(n - 1), n)
  ELSE PlotsUpTo(n - 1)

\* C4: fetchReplicateData never raises, whichever replicates fail, and once
\* it has returned its result holds a curve for exactly the replicates whose
\* fetch and processing ended with a curve.
C4_FailuresNeverAbortBatch ==
  /\ poolState # "rejected"
  /\ poolState = "resolved" =>
       /\ \A i \in 1..MaxReplicates : phase[i] \in {"absent", "settled"}
       /\ ResultIds = {i \in 1..MaxReplicates : outcome[i] = "curve"}

\* C5: at most 4 replicate fetches of one request are started and not yet
\* done with.
C5_AtMostFourOutstanding ==
  /\ Cardinality(InProgress) <= 4
  /\ workers <= 4

C5_Witness ==
  /\ Cardinality(InProgress) = 4
  /\ \E i \in InProgress : phase[i] # "fetch"
  /\ queue # <<>>

\* C6: the expression groups of the payload (order of the sources, order of
\* the groups, order of the traces of a group, baseline of a group) are those
\* of the run in which the replicates complete in id order: they depend on
\* the metadata and on the outcomes only, not on the completion order.
C6_GroupsIndependentOfCompletionOrder ==
  poolState = "resolved" =>
    expressionGroups = groupByExpressionSource(metadata, PlotsUpTo(MaxReplicates))

C6_Witness ==
  /\ poolState = "resolved"
  /\ Len(results) >= 3
  /\ results[1] > results[2]
  /\ \E s \in 1..Len(expressionGroups) :
       \E g \in 1..Len(expressionGroups[s].groups) :
         Len(expressionGroups[s].groups[g].traces) >= 2

\* The ids of the metadata rows, and those a fetch was issued for.
MetadataIds == {metadata[j].id : j \in 1..Len(metadata)}
IssuedIds == {issued[j] : j \in 1..Len(issued)}

\* C26: fetchReplicateData issues one archive fetch per distinct replicate
\* id of the metadata: never two for one id, none for an id the metadata
\* does not list, and, once every issued fetch has settled, one for every
\* id; by then it has terminated.
C26_OneFetchPerReplicate ==
  /\ \A a, b \in 1..Len(issued) : issued[a] = issued[b] => a = b
  /\ IssuedIds \subseteq MetadataIds
  /\ poolState # "init" /\ InProgress = {} =>
       /\ poolState \in {"resolved", "rejected"}
       /\ IssuedIds = MetadataIds

=============================================================================
